---------------------------- MODULE Spec2Model ----------------------------
(***************************************************************************)
(* A model of onionwrap (src/main.go, inetd.go in src/unnamed/part_001).   *)
(*                                                                         *)
(* Go strings are sequences of one-character strings, so that splitting,   *)
(* prefix tests, decimal parsing and base64 are computed character by      *)
(* character as the code does.                                             *)
(***************************************************************************)
EXTENDS Integers, Sequences, FiniteSets, TLC

(***************************************************************************)
(* Bounds of the model.                                                    *)
(***************************************************************************)
MaxArgLen == 3
MaxKeyLen == 2
MaxSignals == 2
MaxConns == 2
MaxMainConns == 1
MaxTokens == 2
MaxAcceptErrs == 1

(***************************************************************************)
(* Program constants.                                                      *)
(***************************************************************************)
sigKillDelay == 5

localhost == <<"1","2","7",".","0",".","0",".","1">>

defaultControlPort == <<"t","c","p",":","/","/">> \o localhost \o <<":","9","0","5","1">>

onionKeyTypeRSA == <<"R","S","A","1","0","2","4">>

pemKeyTypeRSA == <<"R","S","A"," ","P","R","I","V","A","T","E"," ","K","E","Y">>

serviceIDPrefix == <<"S","e","r","v","i","c","e","I","D","=">>

privateKeyPrefix == <<"P","r","i","v","a","t","e","K","e","y","=">>

unixPrefix == <<"u","n","i","x",":">>

(***************************************************************************)
(* package strings / strconv, as used by the program.                      *)
(***************************************************************************)
DigitChars == <<"0","1","2","3","4","5","6","7","8","9">>

IsDigit(c) == \E i \in 1..10 : DigitChars[i] = c

DigitVal(c) == (CHOOSE i \in 1..10 : DigitChars[i] = c) - 1

\* The loop of strconv.ParseUint(s, 10, 16) over the characters that are
\* left, n being the value of those read: a character that is not a digit is
\* a syntax error, and the value passing 2^16 - 1 is a range error at once,
\* whatever follows.
RECURSIVE ParseUintFrom(_, _)
ParseUintFrom(s, n) ==
    IF s = <<>> THEN [err |-> "", val |-> n]
    ELSE IF ~IsDigit(s[1]) THEN [err |-> "syntax", val |-> 0]
    ELSE IF 10 * n + DigitVal(s[1]) > 65535 THEN [err |-> "range", val |-> 65535]
    ELSE ParseUintFrom(Tail(s), 10 * n + DigitVal(s[1]))

\* strconv.ParseUint(s, 10, 16)
ParseUint16(s) ==
    IF s = <<>> THEN [err |-> "syntax", val |-> 0]
    ELSE ParseUintFrom(s, 0)

RECURSIVE Itoa(_)
Itoa(n) == IF n < 10 THEN <<DigitChars[n + 1]>>
           ELSE Itoa(n \div 10) \o <<DigitChars[(n % 10) + 1]>>

HasPrefix(s, p) == Len(s) >= Len(p) /\ SubSeq(s, 1, Len(p)) = p

TrimPrefix(s, p) == IF HasPrefix(s, p) THEN SubSeq(s, Len(p) + 1, Len(s)) ELSE s

\* The index of the first occurrence of the one-character separator, 0 if none.
IndexOf(s, sep) ==
    IF \E i \in 1..Len(s) : s[i] = sep
    THEN CHOOSE i \in 1..Len(s) : s[i] = sep /\ \A j \in 1..(i - 1) : s[j] # sep
    ELSE 0

LastIndexOf(s, sep) ==
    IF \E i \in 1..Len(s) : s[i] = sep
    THEN CHOOSE i \in 1..Len(s) : s[i] = sep /\ \A j \in (i + 1)..Len(s) : s[j] # sep
    ELSE 0

\* strings.SplitN(s, sep, 2)
SplitN2(s, sep) ==
    LET i == IndexOf(s, sep)
    IN  IF i = 0 THEN <<s>>
        ELSE <<SubSeq(s, 1, i - 1), SubSeq(s, i + 1, Len(s))>>

(***************************************************************************)
(* net.ResolveTCPAddr("tcp", addr): net.SplitHostPort, then the port       *)
(* (net.LookupPort), then the host: the empty host, an IP literal, or a    *)
(* name the resolver knows.                                                *)
(***************************************************************************)
Contains(s, c) == \E i \in DOMAIN s : s[i] = c

\* net.SplitHostPort
SplitHostPort(hostport) ==
    LET i == LastIndexOf(hostport, ":")
        end == IndexOf(hostport, "]")
        bracket == hostport # <<>> /\ hostport[1] = "["
        host == IF bracket THEN SubSeq(hostport, 2, end - 1)
                ELSE SubSeq(hostport, 1, i - 1)
        \* what is searched for a stray '[' and a stray ']'
        restJ == IF bracket THEN SubSeq(hostport, 2, Len(hostport)) ELSE hostport
        restK == IF bracket THEN SubSeq(hostport, end + 1, Len(hostport)) ELSE hostport
        fail(e) == [err |-> e, host |-> <<>>, port |-> <<>>]
    IN  IF i = 0 THEN fail("missing port in address")
        ELSE IF bracket /\ end = 0 THEN fail("missing ']' in address")
        ELSE IF bracket /\ end = Len(hostport) THEN fail("missing port in address")
        ELSE IF bracket /\ end + 1 # i
             THEN IF hostport[end + 1] = ":" THEN fail("too many colons in address")
                  ELSE fail("missing port in address")
        ELSE IF ~bracket /\ Contains(host, ":") THEN fail("too many colons in address")
        ELSE IF Contains(restJ, "[") THEN fail("unexpected '[' in address")
        ELSE IF Contains(restK, "]") THEN fail("unexpected ']' in address")
        ELSE [err |-> "", host |-> host, port |-> SubSeq(hostport, i + 1, Len(hostport))]

\* lowerASCII of package net: the upper-case letters made lower-case.
LowerASCII(s) ==
    LET upper == <<"A","B","C","D","E","F","G","H","I","J","K","L","M",
                   "N","O","P","Q","R","S","T","U","V","W","X","Y","Z">>
        lower == <<"a","b","c","d","e","f","g","h","i","j","k","l","m",
                   "n","o","p","q","r","s","t","u","v","w","x","y","z">>
        low(c) == IF \E i \in 1..26 : upper[i] = c
                  THEN lower[CHOOSE i \in 1..26 : upper[i] = c]
                  ELSE c
    IN  [i \in DOMAIN s |-> low(s[i])]

\* The map of package net for the network "tcp": the services it knows by
\* name without the system's database ("domain" is in its map for "udp").
KnownServices ==
    { [name |-> <<"f","t","p">>, port |-> 21],
      [name |-> <<"f","t","p","s">>, port |-> 990],
      [name |-> <<"g","o","p","h","e","r">>, port |-> 70],
      [name |-> <<"h","t","t","p">>, port |-> 80],
      [name |-> <<"h","t","t","p","s">>, port |-> 443],
      [name |-> <<"i","m","a","p","2">>, port |-> 143],
      [name |-> <<"i","m","a","p","3">>, port |-> 220],
      [name |-> <<"i","m","a","p","s">>, port |-> 993],
      [name |-> <<"p","o","p","3">>, port |-> 110],
      [name |-> <<"p","o","p","3","s">>, port |-> 995],
      [name |-> <<"s","m","t","p">>, port |-> 25],
      [name |-> <<"s","u","b","m","i","s","s","i","o","n","s">>, port |-> 465],
      [name |-> <<"s","s","h">>, port |-> 22],
      [name |-> <<"t","e","l","n","e","t">>, port |-> 23] }

\* parsePort of package net, over the characters that are left: the number
\* read so far is the uint32 hi * 2^16 + lo.  A character that is not a
\* digit sends the service to the lookup by name; the loop stops, with the
\* largest uint32, once the number has reached 2^30 or the addition of a
\* digit overflows; the multiplication by 10 wraps around at 2^32.
RECURSIVE PortDigits(_, _, _)
PortDigits(s, hi, lo) ==
    IF s = <<>> THEN [needsLookup |-> FALSE, hi |-> hi, lo |-> lo]
    ELSE IF ~IsDigit(s[1]) THEN [needsLookup |-> TRUE, hi |-> 0, lo |-> 0]
    ELSE IF hi >= 16384 THEN [needsLookup |-> FALSE, hi |-> 65535, lo |-> 65535]
    ELSE LET h10 == ((hi * 10) + ((lo * 10) \div 65536)) % 65536
             l10 == ((lo * 10) % 65536) + DigitVal(s[1])
         IN  IF h10 = 65535 /\ l10 >= 65536
             THEN [needsLookup |-> FALSE, hi |-> 65535, lo |-> 65535]
             ELSE PortDigits(Tail(s), h10 + (l10 \div 65536), l10 % 65536)

\* net.LookupPort("tcp", service): the empty service is port 0; a numeral,
\* with an optional sign, is that number, which must be in [0,65535]; any
\* other service is looked up by its name in lower case.
LookupPort(service) ==
    LET signed == service # <<>> /\ service[1] \in {"+", "-"}
        digits == IF signed THEN Tail(service) ELSE service
        n == PortDigits(digits, 0, 0)
        name == LowerASCII(service)
    IN  IF n.needsLookup
        THEN IF \E sv \in KnownServices : sv.name = name
             THEN [err |-> "", port |-> (CHOOSE sv \in KnownServices : sv.name = name).port]
             ELSE [err |-> "unknown port", port |-> 0]
        ELSE IF n.hi # 0 \/ (signed /\ service[1] = "-" /\ n.lo # 0)
             THEN [err |-> "invalid port", port |-> 0]
             ELSE [err |-> "", port |-> n.lo]

\* strings.Split(s, "."): the fields between the dots.
RECURSIVE DotFields(_)
DotFields(s) ==
    LET i == IndexOf(s, ".")
    IN  IF i = 0 THEN <<s>>
        ELSE <<SubSeq(s, 1, i - 1)>> \o DotFields(SubSeq(s, i + 1, Len(s)))

\* The parse of an IPv4 literal: four fields of one to three digits, each at
\* most 255 and without a leading zero.
IsIPv4(host) ==
    LET f == DotFields(host)
    IN  /\ Len(f) = 4
        /\ \A k \in 1..4 :
              /\ Len(f[k]) \in 1..3
              /\ \A j \in DOMAIN f[k] : IsDigit(f[k][j])
              /\ PortDigits(f[k], 0, 0).lo <= 255
              /\ Len(f[k]) > 1 => f[k][1] # "0"

\* The loop of the parse of an IPv6 literal over the characters that are
\* left: i is the number of bytes of the address filled so far, ellipsis the
\* place of the "::" (-1 when there was none).  A field is one to four
\* hexadecimal digits; a dot after the digits starts an IPv4 literal, which
\* must fill the last four bytes; fields are separated by one colon, and
\* "::" may occur once; it must stand for at least one field.
RECURSIVE ParseIPv6Fields(_, _, _)
ParseIPv6Fields(s, i, ellipsis) ==
    LET IsHex(c) == IsDigit(c) \/ c \in {"a","b","c","d","e","f","A","B","C","D","E","F"}
        n == IF \A k \in DOMAIN s : IsHex(s[k]) THEN Len(s)
             ELSE (CHOOSE k \in DOMAIN s :
                      ~IsHex(s[k]) /\ \A j \in 1..(k - 1) : IsHex(s[j])) - 1
        done(j, e) == IF j < 16 THEN e >= 0 ELSE e < 0
        s1 == SubSeq(s, n + 1, Len(s))
        s2 == Tail(s1)
        s3 == Tail(s2)
    IN  IF i >= 16 THEN FALSE
        ELSE IF n = 0 \/ n > 4 THEN FALSE
        ELSE IF s1 # <<>> /\ s1[1] = "."
        THEN /\ ellipsis >= 0 \/ i = 12
             /\ i + 4 <= 16
             /\ IsIPv4(s)
             /\ done(i + 4, ellipsis)
        ELSE IF s1 = <<>> THEN done(i + 2, ellipsis)
        ELSE IF s1[1] # ":" \/ Len(s1) = 1 THEN FALSE
        ELSE IF s2[1] # ":" THEN ParseIPv6Fields(s2, i + 2, ellipsis)
        ELSE IF ellipsis >= 0 THEN FALSE
        ELSE IF s3 = <<>> THEN done(i + 2, i + 2)
        ELSE ParseIPv6Fields(s3, i + 2, i + 2)

\* The hosts that resolve: the empty host; an IPv4 literal; an IPv6 literal,
\* with a zone after a percent sign or without; and the names the resolver
\* knows, in upper or lower case.
KnownHosts(host) ==
    LET localhostName == <<"l","o","c","a","l","h","o","s","t">>
        p == IndexOf(host, "%")
        addr == IF p = 0 THEN host ELSE SubSeq(host, 1, p - 1)
        zoned == p # 0 /\ p < Len(host)
        IsIPv6 == /\ p = 0 \/ zoned
                  /\ IF HasPrefix(addr, <<":",":">>)
                     THEN \/ Len(addr) = 2
                          \/ ParseIPv6Fields(SubSeq(addr, 3, Len(addr)), 0, 0)
                     ELSE addr # <<>> /\ ParseIPv6Fields(addr, 0, -1)
    IN  host = <<>> \/ IsIPv4(host) \/ IsIPv6 \/ LowerASCII(host) = localhostName

ResolveTCPAddr(addr) ==
    IF addr = <<>> THEN [err |-> "", port |-> 0]
    ELSE LET sp == SplitHostPort(addr)
             lp == LookupPort(sp.port)
         IN  IF sp.err # "" THEN [err |-> sp.err, port |-> 0]
             ELSE IF lp.err # "" THEN [err |-> lp.err, port |-> 0]
             ELSE IF ~KnownHosts(sp.host) THEN [err |-> "no such host", port |-> 0]
             ELSE [err |-> "", port |-> lp.port]

(***************************************************************************)
(* parsePort, parsePortArg                                                 *)
(***************************************************************************)
\* parsePort without the check for port 0.
parsePort_AllowZero(portStr) ==
    LET r == ParseUint16(portStr)
    IN  IF r.err # "" THEN [err |-> r.err, p |-> 0]
        ELSE [err |-> "", p |-> r.val]

parsePort(portStr) ==
    LET r == ParseUint16(portStr)
    IN  IF r.err # "" THEN [err |-> r.err, p |-> 0]
        ELSE IF r.val = 0 THEN [err |-> "invalid port '0'", p |-> 0]
        ELSE [err |-> "", p |-> r.val]

PortArgError(e) == [virtPort |-> <<>>, targetPort |-> <<>>, target |-> <<>>, err |-> e]

\* parsePortArg without its handling of the target.
parsePortArg_IgnoresTarget(arg) ==
    IF arg = <<>> THEN PortArgError("no Onion Service port specified")
    ELSE LET splitArg == SplitN2(arg, ",")
             vp == splitArg[1]
         IN  IF parsePort(vp).err # "" THEN PortArgError(parsePort(vp).err)
             ELSE [virtPort |-> vp, targetPort |-> vp,
                   target |-> localhost \o <<":">> \o vp, err |-> ""]

parsePortArg(arg) ==
    IF arg = <<>> THEN PortArgError("no Onion Service port specified")
    ELSE LET splitArg == SplitN2(arg, ",")
             vp == splitArg[1]
         IN  IF parsePort(vp).err # "" THEN PortArgError(parsePort(vp).err)
             ELSE IF Len(splitArg) = 1
                  THEN [virtPort |-> vp, targetPort |-> vp,
                        target |-> localhost \o <<":">> \o vp, err |-> ""]
             ELSE LET tgt == splitArg[2]
                      unixPath == TrimPrefix(tgt, unixPrefix)
                      tcpAddr == ResolveTCPAddr(tgt)
                  IN  IF parsePort(tgt).err = ""
                      THEN [virtPort |-> vp, targetPort |-> tgt,
                            target |-> localhost \o <<":">> \o tgt, err |-> ""]
                      ELSE IF unixPath # tgt
                      THEN [virtPort |-> vp, targetPort |-> <<>>,
                            target |-> unixPath, err |-> ""]
                      ELSE IF tcpAddr.err # "" THEN PortArgError(tcpAddr.err)
                      ELSE IF tcpAddr.port = 0
                      THEN PortArgError("target has invalid port '0'")
                      ELSE [virtPort |-> vp, targetPort |-> Itoa(tcpAddr.port),
                            target |-> tgt, err |-> ""]

(***************************************************************************)
(* encoding/base64, StdEncoding: bytes are the integers 0..255.            *)
(***************************************************************************)
encodeStd == <<
    "A","B","C","D","E","F","G","H","I","J","K","L","M","N","O","P",
    "Q","R","S","T","U","V","W","X","Y","Z","a","b","c","d","e","f",
    "g","h","i","j","k","l","m","n","o","p","q","r","s","t","u","v",
    "w","x","y","z","0","1","2","3","4","5","6","7","8","9","+","/">>

B64Char(n) == encodeStd[n + 1]

IsB64Char(c) == \E i \in 1..64 : encodeStd[i] = c

B64Val(c) == (CHOOSE i \in 1..64 : encodeStd[i] = c) - 1

\* EncodeToString: three bytes give four characters; a final group of one
\* or two bytes is padded with "=".
RECURSIVE EncodeToString(_)
EncodeToString(b) ==
    IF Len(b) = 0 THEN <<>>
    ELSE IF Len(b) = 1
    THEN <<B64Char(b[1] \div 4), B64Char((b[1] % 4) * 16), "=", "=">>
    ELSE IF Len(b) = 2
    THEN <<B64Char(b[1] \div 4), B64Char((b[1] % 4) * 16 + b[2] \div 16),
           B64Char((b[2] % 16) * 4), "=">>
    ELSE <<B64Char(b[1] \div 4), B64Char((b[1] % 4) * 16 + b[2] \div 16),
           B64Char((b[2] % 16) * 4 + b[3] \div 64), B64Char(b[3] % 64)>>
         \o EncodeToString(SubSeq(b, 4, Len(b)))

\* One quantum of four characters; the last one may end in "=" or "==".
\* The decoder is not strict: the unused low bits of a padded quantum are
\* dropped whatever they are.
DecodeQuantum(q, last) ==
    LET v(i) == B64Val(q[i])
    IN  IF \A i \in 1..4 : IsB64Char(q[i])
        THEN [ok |-> TRUE,
              bytes |-> <<v(1) * 4 + v(2) \div 16,
                          (v(2) % 16) * 16 + v(3) \div 4,
                          (v(3) % 4) * 64 + v(4)>>]
        ELSE IF last /\ IsB64Char(q[1]) /\ IsB64Char(q[2]) /\ IsB64Char(q[3]) /\ q[4] = "="
        THEN [ok |-> TRUE,
              bytes |-> <<v(1) * 4 + v(2) \div 16,
                          (v(2) % 16) * 16 + v(3) \div 4>>]
        ELSE IF last /\ IsB64Char(q[1]) /\ IsB64Char(q[2]) /\ q[3] = "=" /\ q[4] = "="
        THEN [ok |-> TRUE, bytes |-> <<v(1) * 4 + v(2) \div 16>>]
        ELSE [ok |-> FALSE, bytes |-> <<>>]

\* The quanta of a text without line ends.
RECURSIVE DecodeQuanta(_)
DecodeQuanta(s) ==
    IF s = <<>> THEN [ok |-> TRUE, bytes |-> <<>>]
    ELSE IF Len(s) < 4 THEN [ok |-> FALSE, bytes |-> <<>>]
    ELSE LET q == DecodeQuantum(SubSeq(s, 1, 4), Len(s) = 4)
             r == DecodeQuanta(SubSeq(s, 5, Len(s)))
         IN  IF q.ok /\ r.ok THEN [ok |-> TRUE, bytes |-> q.bytes \o r.bytes]
             ELSE [ok |-> FALSE, bytes |-> <<>>]

\* base64.StdEncoding.DecodeString: the decoder skips the carriage returns
\* and the line feeds of the text, wherever they are.
DecodeString(s) ==
    LET kept(c) == c \notin {"\n", "\r"}
    IN  DecodeQuanta(SelectSeq(s, kept))

(***************************************************************************)
(* encoding/pem.  A file is a sequence of lines: a BEGIN line and an END   *)
(* line carry the block type, any other line carries its characters.       *)
(***************************************************************************)
pemLineLength == 64

BeginLine(t) == [k |-> "BEGIN", s |-> t]

EndLine(t) == [k |-> "END", s |-> t]

TextLine(s) == [k |-> "TEXT", s |-> s]

RECURSIVE BreakLines(_)
BreakLines(s) ==
    IF s = <<>> THEN <<>>
    ELSE IF Len(s) <= pemLineLength THEN <<TextLine(s)>>
    ELSE <<TextLine(SubSeq(s, 1, pemLineLength))>>
         \o BreakLines(SubSeq(s, pemLineLength + 1, Len(s)))

\* pem.EncodeToMemory of a block without headers.
EncodeToMemory(p) ==
    <<BeginLine(p.Type)>> \o BreakLines(EncodeToString(p.Bytes)) \o <<EndLine(p.Type)>>

\* The characters of the body of a block, as the base64 decoder takes them:
\* line ends are skipped, spaces and tabs were removed (removeSpacesAndTabs
\* of encoding/pem); a line that is not text brings the dashes of its marker.
RECURSIVE JoinText(_)
JoinText(lines) ==
    LET kept(c) == c \notin {" ", "\t"}
    IN  IF lines = <<>> THEN <<>>
        ELSE (IF lines[1].k = "TEXT" THEN SelectSeq(lines[1].s, kept) ELSE <<"-">>)
             \o JoinText(Tail(lines))

\* The header lines of a block: the lines after the BEGIN line up to the
\* first one without a colon.
RECURSIVE HeaderCount(_)
HeaderCount(lines) ==
    IF lines = <<>> \/ ~Contains(lines[1].s, ":") THEN 0
    ELSE 1 + HeaderCount(Tail(lines))

FirstLineOfKind(lines, kind) ==
    IF \E i \in 1..Len(lines) : lines[i].k = kind
    THEN CHOOSE i \in 1..Len(lines) :
            lines[i].k = kind /\ \A j \in 1..(i - 1) : lines[j].k # kind
    ELSE 0

NoBlock == [Type |-> <<>>, Bytes |-> <<>>, found |-> FALSE]

\* pem.Decode: the first well-formed block of the data and what follows it;
\* a BEGIN line whose block is malformed is skipped and the search resumes
\* after it and its headers.  The END line is the first one after the
\* headers; when there are headers it is looked for with the line end before
\* it, so not on the line that follows the last header.
RECURSIVE Decode(_)
Decode(data) ==
    LET b == FirstLineOfKind(data, "BEGIN")
        after == SubSeq(data, b + 1, Len(data))
        h == HeaderCount(after)
        rest == SubSeq(after, h + 1, Len(after))
        skip == IF h > 0 /\ rest # <<>> THEN 1 ELSE 0
        e0 == FirstLineOfKind(SubSeq(rest, skip + 1, Len(rest)), "END")
        e == IF e0 = 0 THEN 0 ELSE e0 + skip
        body == DecodeString(JoinText(SubSeq(rest, 1, e - 1)))
    IN  IF b = 0 \/ rest = <<>> THEN [p |-> NoBlock, rest |-> data]
        ELSE IF e # 0 /\ rest[e].s = data[b].s /\ body.ok
        THEN [p |-> [Type |-> data[b].s, Bytes |-> body.bytes, found |-> TRUE],
              rest |-> SubSeq(rest, e + 1, Len(rest))]
        ELSE LET next == Decode(rest)
             IN  IF next.p.found THEN next ELSE [p |-> NoBlock, rest |-> data]

(***************************************************************************)
(* The key file: NoFile, or the lines of the file at the -onion-key path.  *)
(* The empty path names no file, and cannot be written.                    *)
(***************************************************************************)
NoFile == <<[k |-> "ENOENT", s |-> <<>>]>>

\* A path on which os.Stat fails with an error other than "does not exist".
NoStat == <<[k |-> "EACCES", s |-> <<>>]>>

ReadFile(path, file) ==
    IF path = <<>> \/ file = NoFile THEN [err |-> "no such file", data |-> <<>>]
    ELSE IF file = NoStat THEN [err |-> "permission denied", data |-> <<>>]
    ELSE [err |-> "", data |-> file]

WriteFile(path, file, blob) ==
    IF path = <<>> THEN [err |-> "no such file", file |-> file]
    ELSE IF file = NoStat THEN [err |-> "permission denied", file |-> file]
    ELSE [err |-> "", file |-> blob]

RECURSIVE FirstRSABlock(_)
FirstRSABlock(rawFile) ==
    LET d == Decode(rawFile)
    IN  IF ~d.p.found THEN NoBlock
        ELSE IF d.p.Type = pemKeyTypeRSA THEN d.p
        ELSE FirstRSABlock(d.rest)

loadPrivateKey(path, file) ==
    LET rd == ReadFile(path, file)
        p == FirstRSABlock(rd.data)
    IN  IF rd.err # "" THEN [err |-> rd.err, key |-> <<>>]
        ELSE IF p.found
        THEN [err |-> "", key |-> onionKeyTypeRSA \o <<":">> \o EncodeToString(p.Bytes)]
        ELSE [err |-> "no valid PEM data found", key |-> <<>>]

\* savePrivateKey without the switch on the key type.
savePrivateKey_NoTypeCheck(path, file, keyStr) ==
    LET splitKey == SplitN2(keyStr, ":")
    IN  IF Len(splitKey) # 2
        THEN [err |-> "failed to parse PrivateKey response", file |-> file]
        ELSE LET d == DecodeString(splitKey[2])
             IN  IF ~d.ok THEN [err |-> "illegal base64 data", file |-> file]
                 ELSE WriteFile(path, file,
                                EncodeToMemory([Type |-> pemKeyTypeRSA, Bytes |-> d.bytes]))

\* The result is the error and the key file as the call leaves it.
savePrivateKey(path, file, keyStr) ==
    LET splitKey == SplitN2(keyStr, ":")
    IN  IF Len(splitKey) # 2
        THEN [err |-> "failed to parse PrivateKey response", file |-> file]
        ELSE IF splitKey[1] = onionKeyTypeRSA
        THEN LET d == DecodeString(splitKey[2])
             IN  IF ~d.ok THEN [err |-> "illegal base64 data", file |-> file]
                 ELSE WriteFile(path, file,
                                EncodeToMemory([Type |-> pemKeyTypeRSA, Bytes |-> d.bytes]))
        ELSE [err |-> "unknown key type", file |-> file]

(***************************************************************************)
(* strings.Replace(s, old, new, -1) for a non-empty old.                   *)
(***************************************************************************)
RECURSIVE Replace(_, _, _)
Replace(s, old, new) ==
    IF Len(s) < Len(old) THEN s
    ELSE IF HasPrefix(s, old)
    THEN new \o Replace(SubSeq(s, Len(old) + 1, Len(s)), old, new)
    ELSE <<s[1]>> \o Replace(Tail(s), old, new)

VPORT == <<"%","V","P","O","R","T">>

TPORT == <<"%","T","P","O","R","T">>

TADDR == <<"%","T","A","D","D","R">>

\* The loop body with %TPORT replaced whether or not there is a target port.
RewriteArg_AlwaysTPort(v, vp, tp, tgt) ==
    Replace(Replace(Replace(v, VPORT, vp), TPORT, tp), TADDR, tgt)

\* The loop of main.go:218-227 on one argument.
RewriteArg(v, vp, tp, tgt) ==
    LET v1 == Replace(v, VPORT, vp)
        v2 == IF tp # <<>> THEN Replace(v1, TPORT, tp) ELSE v1
    IN  Replace(v2, TADDR, tgt)

RewriteArgs(args, noRewrite, vp, tp, tgt) ==
    IF noRewrite THEN args
    ELSE [i \in 1..Len(args) |->
            IF i = 1 THEN args[i] ELSE RewriteArg(args[i], vp, tp, tgt)]

(***************************************************************************)
(* The state of one invocation.                                            *)
(***************************************************************************)
VARIABLES
    hsPortArg,      \* -port
    hsKeyArg,       \* -onion-key
    generatePK,     \* -generate
    inetd,          \* -inetd
    noRewriteArgs,  \* -no-rewrite
    quietSpew,      \* -quiet
    ctrlPortArg,    \* -control-port, then the control port main settled on
    cmdVec,         \* flag.Args()
    pc,             \* the position of main
    exitCode,       \* the argument of os.Exit, once called
    errMsg,         \* the line errorf printed
    info,           \* whether infof printed the "Created onion" line
    virtPort, targetPort, target,
    cmdArgs,        \* cmd.Args
    hsKeyStr,
    serviceID,
    keyFile,        \* the file at the -onion-key path
    ctrlConn,       \* the control session: nil, connected, authenticated
    deferred,       \* the calls main has deferred
    closed,         \* whether ctrlConn.Close() was called
    requests,       \* the commands sent to the daemon
    resp,           \* resp.Data, from the daemon's reply until it is parsed
    onion,          \* whether the daemon holds the service
    drainPc,        \* the event-drain goroutine
    notify,         \* whether signal.Notify(sigChan, ...) was called
    signals,        \* SIGINT/SIGTERM delivered to the process after that
    forwarded,      \* the signals sent to the worker with Process.Signal
    sigRecv,        \* the signal main received from sigChan
    worker,         \* the worker process of normal mode
    processState,   \* cmd.ProcessState
    waitPc,         \* the goroutine of cmd.Wait()
    recv,           \* the goroutine whose value main received from doneChan
    elapsed,        \* seconds since time.After(sigKillDelay) was called
    kills,          \* each cmd.Process.Kill(): the state it found the worker in,
                    \* the seconds elapsed and what main had received
    listener,       \* the inetd listener
    conns,          \* the inetd connections
    acceptErrs,     \* the errors l.Accept() has returned
    rt              \* a save/load/save sequence on the key file

inputs == <<hsPortArg, hsKeyArg, generatePK, inetd, noRewriteArgs, quietSpew,
           ctrlPortArg, cmdVec>>

parsed == <<virtPort, targetPort, target, cmdArgs>>

output == <<exitCode, errMsg, info>>

session == <<ctrlConn, deferred, closed, requests, resp, onion>>

keys == <<hsKeyStr, serviceID, keyFile>>

sigVars == <<notify, signals, forwarded, sigRecv>>

procVars == <<worker, processState, waitPc, recv, elapsed, kills>>

inetdVars == <<listener, conns, acceptErrs>>

vars == <<inputs, pc, parsed, output, session, keys, drainPc, sigVars, procVars,
          inetdVars, rt>>

(***************************************************************************)
(* Inputs of the model.                                                    *)
(***************************************************************************)
KeyPath == <<"k">>

GoodFile == EncodeToMemory([Type |-> pemKeyTypeRSA, Bytes |-> <<1>>])

BadFile == <<TextLine(<<"x">>)>>

\* A key file as openssl writes it for an encrypted key: headers, an empty
\* line, and a body with a space in it.
HeaderFile ==
    << BeginLine(pemKeyTypeRSA),
       TextLine(<<"P","r","o","c","-","T","y","p","e",":"," ","4">>),
       TextLine(<<>>),
       TextLine(<<"A","Q"," ","=","=">>),
       EndLine(pemKeyTypeRSA) >>

\* The values of -control-port and of $TOR_CONTROL_PORT: unset, or the
\* address of the daemon's control port.
CtrlPortArgs == { <<>>, defaultControlPort }

MainPortArgs ==
    { <<"8",",","9">>, <<"8",",","u","n","i","x",":","s">>, <<"0">>, <<"8",",","0">>,
      <<"x">>, <<"6","5","5","3","6">>, <<"8",",",":","0">>,
      <<"8",",","[",":",":","2","]",":","h","t","t","p","s">> }

CmdVecs == { <<>>, << <<"w">>, <<"-","p">> \o VPORT >> }

SIDLine == serviceIDPrefix \o <<"a","b">>

PKLine == privateKeyPrefix \o onionKeyTypeRSA \o <<":">> \o EncodeToString(<<2>>)

PKUnknownLine == privateKeyPrefix \o <<"X",":","A","A","=","=">>

OtherLine == <<"x">>

ResponseLines == {SIDLine, serviceIDPrefix, PKLine, PKUnknownLine, OtherLine}

MaxRespLines == 2

Responses == UNION { [1..n -> ResponseLines] : n \in 0..MaxRespLines }

Sigs == {"SIGINT", "SIGTERM"}

Conns == 1..MaxConns

NoConn == [queue |-> "none", h |-> "none", w |-> "none", hung |-> FALSE,
           wg |-> 0, inPump |-> "none", outPump |-> "none",
           stdin |-> "none", stdout |-> "none", conn |-> "none",
           peer |-> "none"]

NoRT == [pc |-> "none", key |-> <<>>, file0 |-> NoFile, err1 |-> "", file1 |-> NoFile,
         lerr |-> "", loaded |-> <<>>, err2 |-> ""]

\* What every specification starts from, the inputs left open.
InitState ==
    /\ pc = "controlPort" /\ exitCode = 0 /\ errMsg = "" /\ info = FALSE
    /\ virtPort = <<>> /\ targetPort = <<>> /\ target = <<>> /\ cmdArgs = <<>>
    /\ hsKeyStr = <<>> /\ serviceID = <<>>
    /\ ctrlConn = "nil" /\ deferred = <<>> /\ closed = FALSE
    /\ requests = <<>> /\ resp = <<>> /\ onion = FALSE
    /\ drainPc = "none"
    /\ notify = FALSE /\ signals = <<>> /\ forwarded = <<>> /\ sigRecv = "none"
    /\ worker = "none" /\ processState = "nil" /\ waitPc = "none"
    /\ recv = "none" /\ elapsed = 0 /\ kills = <<>>
    /\ listener = "none" /\ conns = [c \in Conns |-> NoConn]
    /\ acceptErrs = <<>>

\* The flags of the command line and the key file.  inetd mode is explored
\* without -onion-key and without -quiet: the key and the report only matter
\* up to the creation of the service, which is the same in both modes.
Init ==
    /\ InitState
    /\ hsPortArg \in MainPortArgs
    /\ hsKeyArg \in {<<>>, KeyPath}
    /\ generatePK \in BOOLEAN
    /\ inetd \in (IF hsKeyArg = <<>> THEN BOOLEAN ELSE {FALSE})
    /\ noRewriteArgs = FALSE
    /\ quietSpew \in (IF inetd THEN {FALSE} ELSE BOOLEAN)
    /\ ctrlPortArg \in CtrlPortArgs
    /\ cmdVec \in CmdVecs
    /\ keyFile \in (IF hsKeyArg = <<>> THEN {NoFile} ELSE {NoFile, NoStat, GoodFile, BadFile, HeaderFile})
    /\ rt = NoRT

(***************************************************************************)
(* os.Exit and errorf.  os.Exit ends the process at once: the calls main   *)
(* deferred are not run.                                                   *)
(***************************************************************************)
osExit(code) ==
    /\ pc' = "exited"
    /\ exitCode' = code

errorf(msg) ==
    /\ errMsg' = msg
    /\ osExit(-1)

Running == pc # "exited"

(***************************************************************************)
(* main, up to the creation of the service (main.go:192-319).              *)
(***************************************************************************)
\* main.go:181-190: the control port is that of the flag, else that of the
\* environment, else the default; main keeps it in *ctrlPortArg.  The string
\* is judged by utils.ParseControlPortString of the bulb library, which is
\* not part of the sources: it returns an error (err) or it does not.
ParseControlPort ==
    /\ pc = "controlPort"
    /\ \E env \in CtrlPortArgs, err \in BOOLEAN :
         LET raw == IF ctrlPortArg # <<>> THEN ctrlPortArg
                    ELSE IF env # <<>> THEN env
                    ELSE defaultControlPort
         IN  /\ ctrlPortArg' = raw
             /\ IF err
                THEN errorf("Invalid control port") /\ UNCHANGED info
                ELSE pc' = "parsePort" /\ UNCHANGED output
    /\ UNCHANGED <<hsPortArg, hsKeyArg, generatePK, inetd, noRewriteArgs, quietSpew,
                   cmdVec, parsed, session, keys, drainPc, sigVars, procVars,
                   inetdVars, rt>>

\* main.go:192-195
ParsePortArg ==
    /\ pc = "parsePort"
    /\ LET r == parsePortArg(hsPortArg)
       IN  IF r.err # ""
           THEN /\ errorf("Invalid virtual port")
                /\ UNCHANGED <<info, parsed>>
           ELSE /\ virtPort' = r.virtPort
                /\ targetPort' = r.targetPort
                /\ target' = r.target
                /\ pc' = "command"
                /\ UNCHANGED <<output, cmdArgs>>
    /\ UNCHANGED <<inputs, session, keys, drainPc, sigVars, procVars, inetdVars, rt>>

\* main.go:197-228
BuildCommand ==
    /\ pc = "command"
    /\ IF Len(cmdVec) = 0
       THEN /\ errorf("No command specified to wrap.")
            /\ UNCHANGED <<info, cmdArgs>>
       ELSE /\ cmdArgs' = RewriteArgs(cmdVec, noRewriteArgs, virtPort, targetPort, target)
            /\ pc' = "loadKey"
            /\ UNCHANGED output
    /\ UNCHANGED <<inputs, virtPort, targetPort, target, session, keys, drainPc,
                   sigVars, procVars, inetdVars, rt>>

\* main.go:230-245
LoadKey ==
    /\ pc = "loadKey"
    /\ IF hsKeyArg = <<>>
       THEN pc' = "dial" /\ UNCHANGED <<output, hsKeyStr>>
       ELSE IF keyFile \notin {NoFile, NoStat}
       THEN LET r == loadPrivateKey(hsKeyArg, keyFile)
            IN  IF r.err # ""
                THEN errorf("Failed to load Onion key") /\ UNCHANGED <<info, hsKeyStr>>
                ELSE hsKeyStr' = r.key /\ pc' = "dial" /\ UNCHANGED output
       ELSE IF keyFile = NoFile
       THEN IF ~generatePK
            THEN errorf("Onion Key does not exist") /\ UNCHANGED <<info, hsKeyStr>>
            ELSE pc' = "dial" /\ UNCHANGED <<output, hsKeyStr>>
       ELSE errorf("Failed to stat Onion key") /\ UNCHANGED <<info, hsKeyStr>>
    /\ UNCHANGED <<inputs, parsed, session, serviceID, keyFile, drainPc,
                   sigVars, procVars, inetdVars, rt>>

\* main.go:256-260: bulb.Dial, and the deferred ctrlConn.Close().
Dial ==
    /\ pc = "dial"
    /\ \E ok \in BOOLEAN :
         IF ok
         THEN /\ ctrlConn' = "connected"
              /\ deferred' = Append(deferred, "ctrlConn.Close")
              /\ pc' = "auth"
              /\ UNCHANGED output
         ELSE /\ errorf("Failed to connect to the control port")
              /\ UNCHANGED <<info, ctrlConn, deferred>>
    /\ UNCHANGED <<inputs, parsed, closed, requests, resp, onion, keys, drainPc,
                   sigVars, procVars, inetdVars, rt>>

\* main.go:265-267
Authenticate ==
    /\ pc = "auth"
    /\ \E ok \in BOOLEAN :
         IF ok
         THEN ctrlConn' = "authenticated" /\ pc' = "create" /\ UNCHANGED output
         ELSE /\ errorf("Failed to authenticate with the control port")
              /\ UNCHANGED <<info, ctrlConn>>
    /\ UNCHANGED <<inputs, parsed, deferred, closed, requests, resp, onion, keys,
                   drainPc, sigVars, procVars, inetdVars, rt>>

\* The ADD_ONION command without the test of -generate: never DiscardPK.
AddOnion_NeverDiscard ==
    IF hsKeyStr = <<>>
    THEN [key |-> <<"N","E","W",":","B","E","S","T">>, port |-> hsPortArg,
          discardPK |-> FALSE]
    ELSE [key |-> hsKeyStr, port |-> hsPortArg, discardPK |-> FALSE]

\* main.go:270-279: the ADD_ONION command.
AddOnion ==
    IF hsKeyStr = <<>>
    THEN [key |-> <<"N","E","W",":","B","E","S","T">>, port |-> hsPortArg,
          discardPK |-> ~generatePK]
    ELSE [key |-> hsKeyStr, port |-> hsPortArg, discardPK |-> FALSE]

\* The body of the loop without the test of main.go:293-295: a PrivateKey=
\* line is saved whether or not a key was asked for.
ResponseLine_AcceptsKey(st, l) ==
    IF st.fatal # "" THEN st
    ELSE IF HasPrefix(l, serviceIDPrefix)
    THEN [st EXCEPT !.serviceID = TrimPrefix(l, serviceIDPrefix)]
    ELSE IF HasPrefix(l, privateKeyPrefix)
    THEN LET k == TrimPrefix(l, privateKeyPrefix)
             sv == savePrivateKey(hsKeyArg, st.keyFile, k)
         IN  [st EXCEPT !.hsKeyStr = k, !.keyFile = sv.file,
                        !.fatal = IF sv.err # "" THEN "Failed to save private key"
                                  ELSE ""]
    ELSE st

\* The body of the loop with the test of main.go:293 on -generate alone: a
\* PrivateKey= line is saved even when a key was loaded.
ResponseLine_IgnoresLoaded(st, l) ==
    IF st.fatal # "" THEN st
    ELSE IF HasPrefix(l, serviceIDPrefix)
    THEN [st EXCEPT !.serviceID = TrimPrefix(l, serviceIDPrefix)]
    ELSE IF HasPrefix(l, privateKeyPrefix)
    THEN IF ~generatePK
         THEN [st EXCEPT !.fatal = "Received a private key when we shouldn't have."]
         ELSE LET k == TrimPrefix(l, privateKeyPrefix)
                  sv == savePrivateKey(hsKeyArg, st.keyFile, k)
              IN  [st EXCEPT !.hsKeyStr = k, !.keyFile = sv.file,
                             !.fatal = IF sv.err # "" THEN "Failed to save private key"
                                       ELSE ""]
    ELSE st

\* main.go:284-301: the body of the loop over resp.Data, on one line.  A
\* state that errorf has ended is left as it is.
ResponseLine(st, l) ==
    IF st.fatal # "" THEN st
    ELSE IF HasPrefix(l, serviceIDPrefix)
    THEN [st EXCEPT !.serviceID = TrimPrefix(l, serviceIDPrefix)]
    ELSE IF HasPrefix(l, privateKeyPrefix)
    THEN IF ~generatePK \/ st.hsKeyStr # <<>>
         THEN [st EXCEPT !.fatal = "Received a private key when we shouldn't have."]
         ELSE LET k == TrimPrefix(l, privateKeyPrefix)
                  sv == savePrivateKey(hsKeyArg, st.keyFile, k)
              IN  [st EXCEPT !.hsKeyStr = k, !.keyFile = sv.file,
                             !.fatal = IF sv.err # "" THEN "Failed to save private key"
                                       ELSE ""]
    ELSE st

RECURSIVE ResponseLoop(_, _)
ResponseLoop(st, data) ==
    IF data = <<>> THEN st
    ELSE ResponseLoop(ResponseLine(st, data[1]), Tail(data))

\* The parse of the reply without the check of main.go:302-306.
ParseResponse_NoIDCheck(data) ==
    ResponseLoop([serviceID |-> <<>>, hsKeyStr |-> hsKeyStr,
                  keyFile |-> keyFile, fatal |-> ""], data)

\* main.go:283-306
ParseResponse(data) ==
    LET st == ResponseLoop([serviceID |-> <<>>, hsKeyStr |-> hsKeyStr,
                            keyFile |-> keyFile, fatal |-> ""], data)
    IN  IF st.fatal = "" /\ st.serviceID = <<>>
        THEN [st EXCEPT !.fatal = "Failed to determine service ID."]
        ELSE st

\* main.go:270-282: the request and the daemon's reply: an error, or the
\* lines of a successful reply.
Request ==
    /\ pc = "create"
    /\ requests' = Append(requests, AddOnion)
    /\ \E ok \in BOOLEAN :
         IF ~ok
         THEN /\ errorf("Failed to create onion service")
              /\ UNCHANGED <<info, onion, resp>>
         ELSE /\ onion' = TRUE
              /\ resp' \in Responses
              /\ pc' = "parse"
              /\ UNCHANGED output
    /\ UNCHANGED <<inputs, parsed, ctrlConn, deferred, closed, keys, drainPc,
                   sigVars, procVars, inetdVars, rt>>

\* main going on to the worker whatever the parse of the reply found.
HandleResponse_IgnoreFatal ==
    /\ pc = "parse"
    /\ LET st == ParseResponse(resp)
       IN  /\ hsKeyStr' = st.hsKeyStr
           /\ keyFile' = st.keyFile
           /\ serviceID' = st.serviceID
           /\ info' = ~quietSpew
           /\ resp' = <<>>
           /\ pc' = "startReader"
           /\ UNCHANGED <<exitCode, errMsg>>
    /\ UNCHANGED <<inputs, parsed, ctrlConn, deferred, closed, requests, onion, drainPc,
                   sigVars, procVars, inetdVars, rt>>

\* main.go:283-307: the parse of the reply, and the report.
HandleResponse ==
    /\ pc = "parse"
    /\ LET st == ParseResponse(resp)
       IN  /\ hsKeyStr' = st.hsKeyStr
           /\ keyFile' = st.keyFile
           /\ serviceID' = st.serviceID
           /\ IF st.fatal # ""
              THEN errorf(st.fatal) /\ UNCHANGED <<info, resp>>
              ELSE /\ info' = ~quietSpew
                   /\ resp' = <<>>
                   /\ pc' = "startReader"
                   /\ UNCHANGED <<exitCode, errMsg>>
    /\ UNCHANGED <<inputs, parsed, ctrlConn, deferred, closed, requests, onion, drainPc,
                   sigVars, procVars, inetdVars, rt>>

\* main.go:310-321: StartAsyncReader, doneChan and the event-drain goroutine.
StartReader ==
    /\ pc = "startReader"
    /\ drainPc' = "reading"
    /\ pc' = IF inetd THEN "listen" ELSE "notify"
    /\ UNCHANGED <<inputs, parsed, output, session, keys, sigVars, procVars,
                   inetdVars, rt>>

\* main.go:313-318: ctrlConn.NextEvent() returns an event, and the loop goes
\* on, or an error, which the goroutine then sends on doneChan.
NextEvent ==
    /\ Running
    /\ drainPc = "reading"
    /\ \/ UNCHANGED drainPc
       \/ drainPc' = "sending"
    /\ UNCHANGED <<inputs, pc, parsed, output, session, keys, sigVars, procVars,
                   inetdVars, rt>>

(***************************************************************************)
(* Normal mode (main.go:330-365).                                          *)
(***************************************************************************)
\* The worker after cmd.Process.Kill(): SIGKILL ends a running process, and
\* does nothing to one that has ended.
KillWorker(w) == IF w = "running" THEN "signaled" ELSE w

\* main.go:331-332: sigChan is unbuffered.
Notify ==
    /\ pc = "notify"
    /\ notify' = TRUE
    /\ pc' = "start"
    /\ UNCHANGED <<inputs, parsed, output, session, keys, drainPc, signals, forwarded,
                   sigRecv, procVars, inetdVars, rt>>

\* main.go:333-336
CmdStart ==
    /\ pc = "start"
    /\ \E ok \in BOOLEAN :
         IF ok
         THEN worker' = "running" /\ pc' = "goWait" /\ UNCHANGED output
         ELSE osExit(-1) /\ UNCHANGED <<errMsg, info, worker>>
    /\ UNCHANGED <<inputs, parsed, session, keys, drainPc, sigVars, processState,
                   waitPc, recv, elapsed, kills, inetdVars, rt>>

\* main.go:337-339
GoWait ==
    /\ pc = "goWait"
    /\ waitPc' = "waiting"
    /\ pc' = "select1"
    /\ UNCHANGED <<inputs, parsed, output, session, keys, drainPc, sigVars, worker,
                   processState, recv, elapsed, kills, inetdVars, rt>>

\* The worker ends by itself: with status 0, with another status, or by a
\* signal.  A worker that ignores what it is sent just keeps running.
WorkerEnds ==
    /\ Running
    /\ worker = "running"
    /\ worker' \in {"exit0", "exitN", "signaled"}
    /\ UNCHANGED <<inputs, pc, parsed, output, session, keys, drainPc, sigVars,
                   processState, waitPc, recv, elapsed, kills, inetdVars, rt>>

\* main.go:338: cmd.Wait() returns once the worker has ended, and sets
\* cmd.ProcessState; the goroutine then sends on doneChan.
CmdWait ==
    /\ Running
    /\ waitPc = "waiting"
    /\ worker # "running"
    /\ processState' = worker
    /\ waitPc' = "sending"
    /\ UNCHANGED <<inputs, pc, parsed, output, session, keys, drainPc, sigVars,
                   worker, recv, elapsed, kills, inetdVars, rt>>

\* The goroutines blocked in a send on doneChan.
Senders == (IF waitPc = "sending" THEN {"wait"} ELSE {})
             \cup (IF drainPc = "sending" THEN {"drain"} ELSE {})

ReceiveDone(g, next) ==
    /\ g \in Senders
    /\ recv' = g
    /\ waitPc' = IF g = "wait" THEN "done" ELSE waitPc
    /\ drainPc' = IF g = "drain" THEN "done" ELSE drainPc
    /\ pc' = next

\* main.go:342-343
SelectDone ==
    /\ pc = "select1"
    /\ \E g \in {"wait", "drain"} : ReceiveDone(g, "kill")
    /\ UNCHANGED <<inputs, parsed, output, session, keys, sigVars, worker,
                   processState, elapsed, kills, inetdVars, rt>>

\* A SIGINT or SIGTERM reaches the process after signal.Notify.  The runtime
\* sends it on sigChan without blocking: sigChan being unbuffered, main gets
\* it if it is waiting in the select of main.go:342, and it is dropped
\* otherwise.
DeliverSignal ==
    /\ Running
    /\ notify
    /\ Len(signals) < MaxSignals
    /\ \E sig \in Sigs :
         /\ signals' = Append(signals, [sig |-> sig, running |-> worker = "running",
                                        taken |-> pc = "select1"])
         /\ IF pc = "select1"
            THEN sigRecv' = sig /\ pc' = "forward"
            ELSE UNCHANGED <<sigRecv, pc>>
    /\ UNCHANGED <<inputs, parsed, output, session, keys, drainPc, notify, forwarded,
                   procVars, inetdVars, rt>>

\* main.go:344-350: the signal goes to the worker, and time.After starts.
Forward ==
    /\ pc = "forward"
    /\ forwarded' = Append(forwarded, sigRecv)
    /\ elapsed' = 0
    /\ pc' = "select2"
    /\ UNCHANGED <<inputs, parsed, output, session, keys, drainPc, notify, signals,
                   sigRecv, worker, processState, waitPc, recv, kills, inetdVars, rt>>

\* A second passes while main waits in the select of main.go:348.
Tick ==
    /\ pc = "select2"
    /\ elapsed < sigKillDelay
    /\ elapsed' = elapsed + 1
    /\ UNCHANGED <<inputs, pc, parsed, output, session, keys, drainPc, sigVars,
                   worker, processState, waitPc, recv, kills, inetdVars, rt>>

\* main.go:349
GraceDone ==
    /\ pc = "select2"
    /\ \E g \in {"wait", "drain"} : ReceiveDone(g, "kill")
    /\ UNCHANGED <<inputs, parsed, output, session, keys, sigVars, worker,
                   processState, elapsed, kills, inetdVars, rt>>

\* A timer that has fired as soon as it is started.
TimerFired_Immediately == elapsed >= 0

\* Whether the timer of time.After(sigKillDelay) has fired.
TimerFired == elapsed >= sigKillDelay

\* main.go:350-353
GraceTimeout ==
    /\ pc = "select2"
    /\ TimerFired
    /\ kills' = Append(kills, [found |-> worker, elapsed |-> elapsed, recv |-> recv])
    /\ worker' = KillWorker(worker)
    /\ osExit(-1)
    /\ UNCHANGED <<inputs, parsed, errMsg, info, session, keys, drainPc, sigVars,
                   processState, waitPc, recv, elapsed, inetdVars, rt>>

\* main.go:357-358
FinalKill ==
    /\ pc = "kill"
    /\ kills' = Append(kills, [found |-> worker, elapsed |-> elapsed, recv |-> recv])
    /\ worker' = KillWorker(worker)
    /\ pc' = "check"
    /\ UNCHANGED <<inputs, parsed, output, session, keys, drainPc, sigVars,
                   processState, waitPc, recv, elapsed, inetdVars, rt>>

\* main.go:361: cmd.ProcessState.Success()
Success(ps) == ps = "exit0"

\* main.go:360-365
ExitStatus ==
    /\ pc = "check"
    /\ IF processState = "nil" \/ ~Success(processState)
       THEN osExit(-1)
       ELSE osExit(0)
    /\ UNCHANGED <<inputs, parsed, errMsg, info, session, keys, drainPc, sigVars,
                   procVars, inetdVars, rt>>

(***************************************************************************)
(* inetd mode: runInetd, onInetdConn, copyLoop (src/unnamed/part_001).     *)
(*                                                                         *)
(* A connection c: queue is its place with the listener, peer the remote   *)
(* end, conn the accepted net.Conn, h the position of its handler, w its   *)
(* worker, stdin and stdout the handler's ends of the worker's pipes, wg   *)
(* the WaitGroup, inPump the copyLoop from conn to stdin and outPump the   *)
(* one from stdout to conn.                                                *)
(***************************************************************************)
InetdAfter == <<inputs, parsed, session, keys, drainPc, sigVars, procVars, rt>>

\* runInetd, part_001:18-22 (from main.go:321-326)
Listen ==
    /\ pc = "listen"
    /\ \E ok \in BOOLEAN :
         IF ok
         THEN listener' = "listening" /\ pc' = "accept" /\ UNCHANGED output
         ELSE errorf("Failed to create an inetd listener") /\ UNCHANGED <<info, listener>>
    /\ UNCHANGED <<InetdAfter, conns, acceptErrs>>

\* A peer connects: the connection waits in the listen queue.  Connections
\* are numbered in the order they arrive.
PeerConnect(c) ==
    /\ Running
    /\ listener = "listening"
    /\ conns[c].queue = "none"
    /\ \A d \in Conns : d < c => conns[d].queue # "none"
    /\ conns' = [conns EXCEPT ![c].queue = "pending", ![c].peer = "open"]
    /\ UNCHANGED <<InetdAfter, pc, output, listener, acceptErrs>>

\* An accept loop that runs each handler to its end before the next Accept.
Accept_Serial(c) ==
    /\ pc = "accept"
    /\ conns[c].queue = "pending"
    /\ \A d \in Conns : d < c => conns[d].queue # "pending"
    /\ \A d \in Conns : conns[d].h \in {"none", "done"}
    /\ conns' = [conns EXCEPT ![c].queue = "accepted", ![c].conn = "open",
                              ![c].h = "stdinPipe"]
    /\ UNCHANGED <<InetdAfter, pc, output, listener, acceptErrs>>

\* part_001:25,32-33: Accept returns a connection and its handler is spawned
\* with go; the loop goes back to Accept.
Accept(c) ==
    /\ pc = "accept"
    /\ conns[c].queue = "pending"
    /\ \A d \in Conns : d < c => conns[d].queue # "pending"
    /\ conns' = [conns EXCEPT ![c].queue = "accepted", ![c].conn = "open",
                              ![c].h = "stdinPipe"]
    /\ UNCHANGED <<InetdAfter, pc, output, listener, acceptErrs>>

\* The errors l.Accept() returns.  Every error of a listener of package net
\* is a net.Error (a *net.OpError, or a syscall.Errno), so the type
\* assertion of part_001:27 holds: the error is temporary (Temporary() is
\* true) or permanent.
AcceptErrorKinds == {"temporary", "permanent"}

\* The connections accepted so far.
AcceptedConns == { c \in Conns : conns[c].queue = "accepted" }

\* An accept loop that goes on after every error.
AcceptError_NeverFatal ==
    /\ pc = "accept"
    /\ Len(acceptErrs) < MaxAcceptErrs
    /\ \E e \in AcceptErrorKinds :
         acceptErrs' = Append(acceptErrs, [kind |-> e, accepted |-> Cardinality(AcceptedConns)])
    /\ UNCHANGED <<InetdAfter, pc, output, listener, conns>>

\* part_001:26-31: Accept returns an error.  It is fatal when it is not
\* temporary; the loop continues when it is.  acceptErrs is the log of the
\* errors returned, each with the number of connections accepted before it.
AcceptError ==
    /\ pc = "accept"
    /\ Len(acceptErrs) < MaxAcceptErrs
    /\ \E e \in AcceptErrorKinds :
         /\ acceptErrs' = Append(acceptErrs, [kind |-> e,
                                              accepted |-> Cardinality(AcceptedConns)])
         /\ IF e = "permanent"
            THEN errorf("Critical Accept() failure") /\ UNCHANGED info
            ELSE UNCHANGED <<pc, output>>
    /\ UNCHANGED <<InetdAfter, listener, conns>>

InetdFrame == UNCHANGED <<InetdAfter, pc, output, listener, acceptErrs>>

\* part_001:53-58.  On failure the handler returns: conn.Close() is deferred.
StdinPipe(c) ==
    /\ Running
    /\ conns[c].h = "stdinPipe"
    /\ \E ok \in BOOLEAN :
         conns' = IF ok
                  THEN [conns EXCEPT ![c].stdin = "open", ![c].h = "stdoutPipe"]
                  ELSE [conns EXCEPT ![c].conn = "closed", ![c].h = "done"]
    /\ InetdFrame

\* part_001:60-65
StdoutPipe(c) ==
    /\ Running
    /\ conns[c].h = "stdoutPipe"
    /\ \E ok \in BOOLEAN :
         conns' = IF ok
                  THEN [conns EXCEPT ![c].stdout = "open", ![c].h = "start"]
                  ELSE [conns EXCEPT ![c].stdin = "closed", ![c].conn = "closed",
                                     ![c].h = "done"]
    /\ InetdFrame

\* A handler that ends the process when its worker cannot be started.
WorkerStart_Fatal(c) ==
    /\ Running
    /\ conns[c].h = "start"
    /\ \E ok \in BOOLEAN, hangs \in BOOLEAN :
         IF ok
         THEN /\ conns' = [conns EXCEPT ![c].w = "running", ![c].hung = hangs,
                                        ![c].h = "spawn"]
              /\ UNCHANGED <<pc, output>>
         ELSE /\ errorf("inetd: Failed to start command") /\ UNCHANGED <<info, conns>>
    /\ UNCHANGED <<InetdAfter, listener, acceptErrs>>

\* part_001:67-70.  A worker that hangs never reads, writes or exits.
WorkerStart(c) ==
    /\ Running
    /\ conns[c].h = "start"
    /\ \E ok \in BOOLEAN, hangs \in BOOLEAN :
         conns' = IF ok
                  THEN [conns EXCEPT ![c].w = "running", ![c].hung = hangs,
                                     ![c].h = "spawn"]
                  ELSE [conns EXCEPT ![c].stdout = "closed", ![c].stdin = "closed",
                                     ![c].conn = "closed", ![c].h = "done"]
    /\ InetdFrame

\* part_001:72-75
SpawnPumps(c) ==
    /\ Running
    /\ conns[c].h = "spawn"
    /\ conns' = [conns EXCEPT ![c].wg = 2, ![c].inPump = "read",
                              ![c].outPump = "read", ![c].h = "wgWait"]
    /\ InetdFrame

\* part_001:76
WgWait(c) ==
    /\ Running
    /\ conns[c].h = "wgWait"
    /\ conns[c].wg = 0
    /\ conns' = [conns EXCEPT ![c].h = "kill"]
    /\ InetdFrame

\* part_001:78
HandlerKill(c) ==
    /\ Running
    /\ conns[c].h = "kill"
    /\ conns' = [conns EXCEPT ![c].w = IF @ = "running" THEN "killed" ELSE @,
                              ![c].h = "reap"]
    /\ InetdFrame

\* part_001:79: cmd.Wait() returns once the worker has ended, and closes the
\* handler's ends of the pipes.
HandlerWait(c) ==
    /\ Running
    /\ conns[c].h = "reap"
    /\ conns[c].w # "running"
    /\ conns' = [conns EXCEPT ![c].w = "reaped", ![c].stdin = "closed",
                              ![c].stdout = "closed", ![c].h = "return"]
    /\ InetdFrame

\* part_001:81-82 and the deferred stdoutPipe.Close(), stdinPipe.Close(),
\* conn.Close().
HandlerReturn(c) ==
    /\ Running
    /\ conns[c].h = "return"
    /\ conns' = [conns EXCEPT ![c].stdout = "closed", ![c].stdin = "closed",
                              ![c].conn = "closed", ![c].h = "done"]
    /\ InetdFrame

\* The two calls of copyLoop (part_001:74-75): the pump inPump reads the
\* connection and writes the worker's stdin, the pump outPump reads the
\* worker's stdout and writes the connection.
PumpEnds(p) ==
    IF p = "inPump" THEN [src |-> "conn", dst |-> "stdin"]
                    ELSE [src |-> "stdout", dst |-> "conn"]

\* part_001:91: the pump is in src.Read, and Read returns bytes and no
\* error: the peer has sent some, or the worker, which does not hang, has
\* written some.  The pump goes on to dst.Write.
copyLoop_Read(c, p) ==
    /\ Running
    /\ conns[c][p] = "read"
    /\ conns[c][PumpEnds(p).src] = "open"
    /\ IF p = "inPump" THEN conns[c].peer = "open"
                       ELSE conns[c].w = "running" /\ ~conns[c].hung
    /\ conns' = [conns EXCEPT ![c][p] = "write"]
    /\ InetdFrame

\* part_001:93: the pump is in dst.Write, and Write returns without an
\* error: the bytes were taken, by the pipe of the worker that runs (the
\* worker reads them, or the pipe has room), or by the connection of a peer
\* that receives.  Until then the pump is blocked in Write.  The pump goes
\* back to src.Read.
copyLoop_Write(c, p) ==
    /\ Running
    /\ conns[c][p] = "write"
    /\ conns[c][PumpEnds(p).dst] = "open"
    /\ IF p = "inPump" THEN conns[c].w = "running"
                       ELSE conns[c].peer \in {"open", "eof"}
    /\ conns' = [conns EXCEPT ![c][p] = "read"]
    /\ InetdFrame

\* part_001:94-99 and 87: the pump returns from the loop, and the first of
\* its deferred calls, wg.Done(), runs.  Read returned an error: src was
\* closed, the peer has finished sending or has reset the connection, the
\* worker has ended.  Or Write did: dst was closed, the worker has ended,
\* the peer has reset the connection.
copyLoop_Return(c, p) ==
    /\ Running
    /\ \/ /\ conns[c][p] = "read"
          /\ \/ conns[c][PumpEnds(p).src] # "open"
             \/ IF p = "inPump" THEN conns[c].peer \in {"eof", "reset"}
                                ELSE conns[c].w # "running"
       \/ /\ conns[c][p] = "write"
          /\ \/ conns[c][PumpEnds(p).dst] # "open"
             \/ IF p = "inPump" THEN conns[c].w # "running"
                                ELSE conns[c].peer = "reset"
    /\ conns' = [conns EXCEPT ![c].wg = @ - 1, ![c][p] = "closeDst"]
    /\ InetdFrame

\* part_001:85-86: the other deferred calls of copyLoop run last first:
\* dst.Close(), then src.Close().
copyLoop_Defer(c, p) ==
    /\ Running
    /\ \/ /\ conns[c][p] = "closeDst"
          /\ conns' = [conns EXCEPT ![c][PumpEnds(p).dst] = "closed",
                                    ![c][p] = "closeSrc"]
       \/ /\ conns[c][p] = "closeSrc"
          /\ conns' = [conns EXCEPT ![c][PumpEnds(p).src] = "closed",
                                    ![c][p] = "end"]
    /\ InetdFrame

\* The peer finishes sending (the pump's Read returns the end of the
\* stream); or it stalls: it neither sends nor receives any more, so that
\* Read and Write on the connection block; or it resets the connection, so
\* that Read and Write fail.
PeerClose(c) ==
    /\ Running
    /\ \E to \in {"eof", "stalled", "reset"} :
         /\ conns[c].peer \in (IF to = "reset" THEN {"open", "eof", "stalled"}
                                               ELSE {"open"})
         /\ conns' = [conns EXCEPT ![c].peer = to]
    /\ InetdFrame

\* A worker that does not hang exits.
InetdWorkerExit(c) ==
    /\ Running
    /\ conns[c].w = "running"
    /\ ~conns[c].hung
    /\ conns' = [conns EXCEPT ![c].w = "exited"]
    /\ InetdFrame

(***************************************************************************)
(* The program.                                                            *)
(***************************************************************************)
Setup ==
    \/ ParseControlPort \/ ParsePortArg \/ BuildCommand \/ LoadKey \/ Dial \/ Authenticate
    \/ Request \/ HandleResponse \/ StartReader

NormalMode ==
    \/ Notify \/ CmdStart \/ GoWait \/ WorkerEnds \/ CmdWait \/ SelectDone
    \/ DeliverSignal \/ Forward \/ Tick \/ GraceDone \/ GraceTimeout
    \/ FinalKill \/ ExitStatus

\* The goroutine of onInetdConn.
Handler(c) ==
    \/ StdinPipe(c) \/ StdoutPipe(c) \/ WorkerStart(c) \/ SpawnPumps(c)
    \/ WgWait(c) \/ HandlerKill(c) \/ HandlerWait(c) \/ HandlerReturn(c)

\* The first n connections: their peers, the accept loop on them, their
\* handlers, pumps and workers.
InetdConns(n) ==
    \E c \in 1..n :
        \/ PeerConnect(c) \/ PeerClose(c) \/ InetdWorkerExit(c)
        \/ Accept(c) \/ Handler(c)
        \/ \E p \in {"inPump", "outPump"} :
              \/ copyLoop_Read(c, p) \/ copyLoop_Write(c, p)
              \/ copyLoop_Return(c, p) \/ copyLoop_Defer(c, p)

\* The whole program, with MaxMainConns connections in inetd mode.
Next ==
    \/ Setup \/ NextEvent \/ NormalMode
    \/ Listen \/ AcceptError \/ InetdConns(MaxMainConns)

Spec == Init /\ [][Next]_vars

(***************************************************************************)
(* Normal mode on its own: main without the -inetd flag.                   *)
(***************************************************************************)
InitNormal == Init /\ ~inetd

NextNormal == Setup \/ NextEvent \/ NormalMode

SpecNormal == InitNormal /\ [][NextNormal]_vars

(***************************************************************************)
(* The port parser on its own: main.go:192-195 on a larger set of -port    *)
(* arguments: every string of at most MaxArgLen characters of ArgChars,    *)
(* and every VPORT and VPORT,TARGET of the two lists.                      *)
(***************************************************************************)
ArgChars == {"0", "7", ",", ":", "u"}

VPortStrs ==
    { <<"8">>, <<"0">>, <<"0","8">>, <<"6","5","5","3","5">>,
      <<"6","5","5","3","6">>, <<"x">>, <<>>, <<"6","5","5","3","6","x">>,
      <<"9","9","9","9","9","9","9","9","9","9","9","9","9","9","9","9","9","9","9","9">> }

TargetStrs ==
    { <<"9">>, <<"0">>, <<"0","0">>, <<"6","5","5","3","5">>,
      <<"6","5","5","3","6">>, <<"u","n","i","x",":","s">>,
      <<"u","n","i","x",":">>, <<"u","n","i","x">>,
      <<"u","n","i","x",":","u","n","i","x",":","s">>,
      <<"u","n","i","x",":","a",",","b">>,
      <<"1","2","7",".","0",".","0",".","1",":","9">>, <<":","9">>,
      <<"1","2","7",".","0",".","0",".","1",":","0">>,
      <<"1","2","7",".","0",".","0",".","1",":">>, <<":","6","5","5","3","6">>,
      <<"h",":","9">>, <<"1",":","2",":","3">>, <<"9",",","1">>, <<>>,
      <<"1","0",".","0",".","0",".","1",":","9">>, <<"0",".","0",".","0",".","0",":","9">>,
      <<"[",":",":","1","]",":","9">>, <<"[",":",":","1","]",":","0">>,
      <<"1","2","7",".","0",".","0",".","1",":","h","t","t","p">>,
      <<"l","o","c","a","l","h","o","s","t",":","9">>,
      <<"1","2","7",".","0",".","0",".","1",":","+","9">>, <<"1","2","7",".","0",".","0",".","1",":","-","9">>,
      <<"[",":",":","1","]">>, <<"[",":",":","1","]","9">>,
      <<":",":","1",":","9">>, <<"[","h",":","9">>,
      <<"2","5","6",".","0",".","0",".","1",":","9">>, <<"1","2","7",".","0",".","0",".","1",":","x">>,
      <<"[",":",":","2","]",":","9">>,
      <<"[","2","0","0","1",":","d","b","8",":",":","1","]",":","9">>,
      <<"[","f","e","8","0",":",":","1","]",":","8","0">>,
      <<"[","0",":","0",":","0",":","0",":","0",":","0",":","0",":","1","]",":","9">>,
      <<"[",":",":","f","f","f","f",":","1",".","2",".","3",".","4","]",":","9">>,
      <<"[","f","e","8","0",":",":","1","%","e","]",":","9">>,
      <<"[",":",":","1","%","]",":","9">>,
      <<"[","1",":",":","2",":",":","3","]",":","9">>,
      <<"[","1",":","2",":","3",":","4",":","5",":","6",":","7",":","8",":","9","]",":","9">>,
      <<"[","1",":","2",":","3",":","4",":","5",":","6",":","7",":",":","]",":","9">>,
      <<"[","1","2","3","4","5",":",":","]",":","9">>,
      <<"[","1",".","2",".","3",".","4",":",":","]",":","9">>,
      <<"[",":","1","]",":","9">>,
      <<"[","1",":","]",":","9">>,
      <<"[","g",":",":","]",":","9">>,
      <<"1","2","7",".","0",".","0",".","1",":","h","t","t","p","s">>,
      <<"1","2","7",".","0",".","0",".","1",":","H","T","T","P">>,
      <<":","s","s","h">>,
      <<"L","O","C","A","L","H","O","S","T",":","9">>,
      <<"1","2","7",".","0",".","0",".","1",":","1","0","7","3","7","4","1","8","2","4","0","x">>,
      <<"1","2","7",".","0",".","0",".","1",":","4","2","9","4","9","6","7","3","0","0">>,
      <<"1","2","7",".","0",".","0",".","1",":","4","2","9","4","9","6","7","2","9","6">>,
      <<"1","2","7",".","0",".","0",".","1",":","-","0">>,
      <<"1","2","7",".","0",".","0",".","1",":","+","h","t","t","p">> }

ParseInputs ==
    UNION { [1..n -> ArgChars] : n \in 0..MaxArgLen }
    \cup VPortStrs
    \cup { v \o <<",">> \o tg : v \in VPortStrs, tg \in TargetStrs }

FixedInputs ==
    /\ hsKeyArg = <<>> /\ generatePK = FALSE /\ inetd = FALSE
    /\ quietSpew = FALSE /\ ctrlPortArg = <<>>
    /\ noRewriteArgs = FALSE /\ cmdVec = << <<"w">> >>
    /\ keyFile = NoFile

InitParse ==
    /\ InitState
    /\ FixedInputs
    /\ hsPortArg \in ParseInputs
    /\ rt = NoRT

NextParse == ParseControlPort \/ ParsePortArg

SpecParse == InitParse /\ [][NextParse]_vars

(***************************************************************************)
(* The key codec on its own: a key is saved to the key file, the file is   *)
(* loaded, and what was loaded is saved again.                             *)
(***************************************************************************)
ByteVals == {0, 77, 255}

\* A blob whose base64 form spans more than one line of the PEM block.
LongBlob == [i \in 1..49 |-> (i * 37) % 256]

KeyBlobs == UNION { [1..n -> ByteVals] : n \in 0..MaxKeyLen } \cup {LongBlob}

UnknownKeyType == <<"E","D","2","5","5","1","9">>

\* The wire form of a key: "<type>:<base64 of the blob>".
WireForm(type, blob) == type \o <<":">> \o EncodeToString(blob)

RSAWireKeys == { WireForm(onionKeyTypeRSA, b) : b \in KeyBlobs }

UnknownWireKeys == { WireForm(UnknownKeyType, b) : b \in KeyBlobs }

MalformedKeys ==
    { <<"R","S","A">>,
      onionKeyTypeRSA \o <<":","A">>,
      onionKeyTypeRSA \o <<":","T","R","=","=">>,
      onionKeyTypeRSA \o <<":","A","Q","=","=","\n">> }

KeyInputs == RSAWireKeys \cup UnknownWireKeys \cup MalformedKeys

InitKey ==
    /\ InitState
    /\ hsPortArg = <<"8">> /\ hsKeyArg = KeyPath /\ generatePK = TRUE /\ inetd = FALSE
    /\ quietSpew = FALSE /\ ctrlPortArg = <<>>
    /\ noRewriteArgs = FALSE /\ cmdVec = << <<"w">> >>
    /\ keyFile \in {NoFile, GoodFile}
    /\ \E k \in KeyInputs : rt = [NoRT EXCEPT !.pc = "save1", !.key = k, !.file0 = keyFile]

KeyFrame ==
    UNCHANGED <<inputs, pc, parsed, output, session, hsKeyStr, serviceID, drainPc,
                sigVars, procVars, inetdVars>>

SaveKey ==
    /\ rt.pc = "save1"
    /\ LET r == savePrivateKey(hsKeyArg, keyFile, rt.key)
       IN  /\ keyFile' = r.file
           /\ rt' = [rt EXCEPT !.err1 = r.err, !.file1 = r.file,
                               !.pc = IF r.err = "" THEN "load" ELSE "done"]
    /\ KeyFrame

LoadSavedKey ==
    /\ rt.pc = "load"
    /\ LET r == loadPrivateKey(hsKeyArg, keyFile)
       IN  rt' = [rt EXCEPT !.lerr = r.err, !.loaded = r.key,
                            !.pc = IF r.err = "" THEN "save2" ELSE "done"]
    /\ UNCHANGED keyFile
    /\ KeyFrame

SaveLoadedKey ==
    /\ rt.pc = "save2"
    /\ LET r == savePrivateKey(hsKeyArg, keyFile, rt.loaded)
       IN  /\ keyFile' = r.file
           /\ rt' = [rt EXCEPT !.err2 = r.err, !.pc = "done"]
    /\ KeyFrame

NextKey == SaveKey \/ LoadSavedKey \/ SaveLoadedKey

SpecKey == InitKey /\ [][NextKey]_vars

(***************************************************************************)
(* inetd mode on its own, from the state main is in when it calls          *)
(* runInetd (main.go:326), with fair scheduling of the goroutines.         *)
(***************************************************************************)
InetdPortArg == <<"8",",","9">>

InitInetd ==
    /\ hsPortArg = InetdPortArg /\ hsKeyArg = <<>> /\ generatePK = FALSE
    /\ inetd = TRUE /\ noRewriteArgs = FALSE /\ cmdVec = << <<"w">>, <<"-","p">> \o VPORT >>
    /\ quietSpew = FALSE /\ ctrlPortArg = defaultControlPort
    /\ keyFile = NoFile /\ rt = NoRT
    /\ pc = "listen" /\ exitCode = 0 /\ errMsg = "" /\ info = ~quietSpew
    /\ virtPort = parsePortArg(InetdPortArg).virtPort
    /\ targetPort = parsePortArg(InetdPortArg).targetPort
    /\ target = parsePortArg(InetdPortArg).target
    /\ cmdArgs = RewriteArgs(cmdVec, FALSE, virtPort, targetPort, target)
    /\ hsKeyStr = <<>> /\ serviceID = <<"a","b">>
    /\ ctrlConn = "authenticated" /\ deferred = <<"ctrlConn.Close">> /\ closed = FALSE
    /\ requests = << [key |-> <<"N","E","W",":","B","E","S","T">>, port |-> InetdPortArg,
                      discardPK |-> TRUE] >>
    /\ resp = <<>> /\ onion = TRUE
    /\ drainPc = "reading"
    /\ notify = FALSE /\ signals = <<>> /\ forwarded = <<>> /\ sigRecv = "none"
    /\ worker = "none" /\ processState = "nil" /\ waitPc = "none"
    /\ recv = "none" /\ elapsed = 0 /\ kills = <<>>
    /\ listener = "none" /\ conns = [c \in Conns |-> NoConn]
    /\ acceptErrs = <<>>

\* runInetd with MaxConns connections, beside the event drain.
NextInetd == NextEvent \/ Listen \/ AcceptError \/ InetdConns(MaxConns)

\* The same while the control connection holds and Accept returns no error.
NextHandlers == Listen \/ InetdConns(MaxConns)

\* The accept loop and the goroutine of a handler take the step they are
\* at when it does not block.  A pump that is not blocked in Read or Write
\* takes its step: it leaves the loop once Read or Write has an error to
\* return, and it runs its deferred calls.  Nothing makes a Read return
\* bytes or a blocked Write return, except these assumptions on what is
\* outside the program: a worker that does not hang eventually exits, and
\* a peer that has not stalled eventually takes the bytes that are written
\* to its connection.
InetdFairness ==
    /\ WF_vars(Listen)
    /\ \A c \in Conns :
         /\ WF_vars(Accept(c))
         /\ WF_vars(Handler(c))
         /\ \A p \in {"inPump", "outPump"} :
               WF_vars(copyLoop_Return(c, p)) /\ WF_vars(copyLoop_Defer(c, p))
         /\ WF_vars(InetdWorkerExit(c))
         /\ WF_vars(copyLoop_Write(c, "outPump"))

FairInetd == InitInetd /\ [][NextInetd]_vars /\ InetdFairness

FairHandlers == InitInetd /\ [][NextHandlers]_vars /\ InetdFairness

(***************************************************************************)
(* Properties of normal mode.                                              *)
(*                                                                         *)
(* kills is the log of the calls of cmd.Process.Kill(): what the worker    *)
(* was when the call was made, the seconds since the signal was forwarded, *)
(* and which goroutine main last received from on doneChan.  signals is    *)
(* the log of the signals that reached the process after signal.Notify.    *)
(***************************************************************************)
Escalated == forwarded # <<>> /\ kills # <<>>

\* C1, as stated: once a signal has been forwarded, Kill is called only on a
\* worker that has already ended or after the sigKillDelay timer has fired.
C1_KillOnlyAfterExitOrTimer ==
    Escalated => (kills[1].found # "running" \/ kills[1].elapsed >= sigKillDelay)

\* C1: once a signal has been forwarded, Kill is called on a worker that is
\* still running only after the sigKillDelay timer has fired, or after the
\* event-drain goroutine has reported the loss of the control connection on
\* doneChan; a receive from the cmd.Wait() goroutine never precedes a Kill
\* of a running worker.
C1_KillAfterExitTimerOrDrain ==
    Escalated =>
        /\ \/ kills[1].found # "running"
           \/ kills[1].elapsed >= sigKillDelay
           \/ kills[1].recv = "drain"
        /\ kills[1].recv = "wait" => kills[1].found # "running"
        /\ Len(kills) = 1

C1_TimeoutKillsRunningWorker ==
    /\ Escalated
    /\ kills[1].found = "running"
    /\ kills[1].elapsed = sigKillDelay
    /\ kills[1].recv = "none"
    /\ pc = "exited"

\* C2, as stated: every SIGINT or SIGTERM that reaches the process after
\* signal.Notify while the worker runs has been forwarded to the worker, as
\* the same signal, by the time Kill is called or the process exits.
C2_EverySignalForwarded ==
    (kills # <<>> \/ pc = "exited") =>
        \A i \in DOMAIN signals :
            signals[i].running => \E j \in DOMAIN forwarded : forwarded[j] = signals[i].sig

\* C3, as stated: in normal mode the exit status is 0 exactly when the
\* worker ended with status 0.
C3_ExitStatusFollowsWorker ==
    (pc = "exited" /\ ~inetd /\ worker # "none") => (exitCode = 0 <=> worker = "exit0")

(***************************************************************************)
(* Properties of the control session.                                      *)
(***************************************************************************)
WorkerOrConnection ==
    \/ worker # "none"
    \/ \E c \in Conns : conns[c].queue = "accepted" \/ conns[c].w # "none"

CreationFailures ==
    {"Failed to create onion service", "Failed to determine service ID.",
     "Received a private key when we shouldn't have.", "Failed to save private key"}

\* C4: a worker has been started, or a connection accepted, only after the
\* one ADD_ONION request was answered with success and the whole reply was
\* parsed and reported (the report is printed unless -quiet was given);
\* after a failure of the creation there is no worker and no accepted
\* connection.
C4_CreationBeforeWorker ==
    /\ WorkerOrConnection =>
          /\ Len(requests) = 1 /\ onion /\ resp = <<>>
          /\ serviceID # <<>> /\ info = ~quietSpew
          /\ pc \notin {"controlPort", "parsePort", "command", "loadKey", "dial", "auth", "create", "parse"}
    /\ errMsg \in CreationFailures => ~WorkerOrConnection /\ listener = "none"

C4_WorkerAfterCreation ==
    /\ inetd /\ \E c \in Conns : conns[c].w = "running"
    /\ Len(requests) = 1 /\ serviceID # <<>>

\* C5, as stated: when the process has exited after the control connection
\* was opened, ctrlConn.Close() has been called.
C5_ClosedOnEveryExit ==
    (pc = "exited" /\ ctrlConn # "nil") => closed

NoServiceIDLine(data) ==
    \A i \in DOMAIN data : ~HasPrefix(data[i], serviceIDPrefix)

\* The messages of the failures that are violations of the protocol.
ProtocolViolations ==
    {"Failed to determine service ID.", "Received a private key when we shouldn't have."}

\* What the parse of a reply without a ServiceID= line leaves, the message
\* being one of msgs.
RejectedWith(msgs) ==
    /\ pc' = "exited" /\ exitCode' # 0 /\ errMsg' \in msgs
    /\ ~info' /\ drainPc' = "none"
    /\ worker' = "none" /\ listener' = "none"

\* C6, as stated: the parse of a successful reply with no ServiceID= line
\* ends the process with a non-zero status and the message of a violation
\* of the protocol, without the success line, the event drain, a worker or
\* a listener.
C6_NoServiceIDIsProtocolViolation ==
    [][(pc = "parse" /\ NoServiceIDLine(resp)) => RejectedWith(ProtocolViolations)]_vars

\* C6: the parse of a successful reply with no ServiceID= line ends the
\* process with a non-zero status, without the success line, the event
\* drain, a worker or a listener; the message is that of a violation of
\* the protocol, unless the reply has a PrivateKey= line that was asked for
\* and savePrivateKey fails on it: the message is then that of the failed
\* save.
C6_NoServiceIDIsFatal ==
    [][(pc = "parse" /\ NoServiceIDLine(resp)) =>
          /\ RejectedWith(ProtocolViolations \cup {"Failed to save private key"})
          /\ (errMsg' = "Failed to save private key") =>
                /\ generatePK
                /\ \E i \in DOMAIN resp :
                      /\ HasPrefix(resp[i], privateKeyPrefix)
                      /\ savePrivateKey(hsKeyArg, keyFile,
                                        TrimPrefix(resp[i], privateKeyPrefix)).err # ""]_vars

C6_KeyWithoutServiceID ==
    /\ pc = "exited" /\ errMsg = "Failed to determine service ID."
    /\ resp = <<PKLine>> /\ NoServiceIDLine(resp)
    /\ keyFile # NoFile /\ ~info /\ drainPc = "none"

(***************************************************************************)
(* Properties of inetd mode.                                               *)
(***************************************************************************)
\* C7: under fair scheduling every connection that reaches the listener is
\* accepted and its handler runs to its end, with the connection closed,
\* unless its own worker hangs, its own peer stops receiving, or the process
\* exits: whatever the workers and the peers of the other connections do.
C7_HungWorkerBlocksNoOther ==
    \A c \in Conns :
        (conns[c].queue = "pending") ~>
            \/ conns[c].h = "done" /\ conns[c].conn = "closed"
            \/ conns[c].hung
            \/ conns[c].peer = "stalled"
            \/ pc = "exited"

C7_SecondDoneWhileFirstHangs ==
    /\ conns[1].hung /\ conns[1].w = "running" /\ conns[1].h = "wgWait"
    /\ conns[1].inPump = "write"
    /\ conns[2].h = "done" /\ conns[2].w = "reaped" /\ conns[2].conn = "closed"
    /\ pc = "accept"

(***************************************************************************)
(* Properties of the port parser.  The reference is written on the text of *)
(* the argument: VPORT is what precedes the first comma, TARGET what       *)
(* follows it.                                                             *)
(***************************************************************************)
HasTarget(arg) == IndexOf(arg, ",") # 0

VPortOf(arg) ==
    IF HasTarget(arg) THEN SubSeq(arg, 1, IndexOf(arg, ",") - 1) ELSE arg

TargetOf(arg) == SubSeq(arg, IndexOf(arg, ",") + 1, Len(arg))

\* The value of a decimal numeral.
RECURSIVE DecVal(_)
DecVal(s) == IF s = <<>> THEN 0
             ELSE 10 * DecVal(SubSeq(s, 1, Len(s) - 1)) + DigitVal(s[Len(s)])

\* A decimal numeral.
IsDecimal(s) == s # <<>> /\ \A i \in DOMAIN s : IsDigit(s[i])

\* A numeral without its leading zeros.
RECURSIVE StripZeros(_)
StripZeros(s) ==
    IF s # <<>> /\ s[1] = "0" THEN StripZeros(Tail(s)) ELSE s

\* A decimal numeral of a port in [1,65535].
IsPortNumeral(s) ==
    /\ IsDecimal(s)
    /\ Len(StripZeros(s)) \in 1..5
    /\ DecVal(StripZeros(s)) \in 1..65535

IsUnixTarget(arg) == HasTarget(arg) /\ HasPrefix(TargetOf(arg), unixPrefix)

Loopback(port) == <<"1","2","7",".","0",".","0",".","1",":">> \o port

Accepted == pc = "command"

\* C8: for every accepted argument: VPORT alone gives the target
\* 127.0.0.1:VPORT and the target port VPORT; VPORT,PORT with PORT a decimal
\* numeral of [1,65535] gives 127.0.0.1:PORT and PORT; VPORT,unix:PATH gives
\* the target PATH and no target port; and there is no target port exactly
\* when the target is a unix: path.  The virtual port is VPORT, a port of
\* [1,65535].
C8_ParserMatchesReference ==
    Accepted =>
        /\ virtPort = VPortOf(hsPortArg) /\ IsPortNumeral(virtPort)
        /\ ~HasTarget(hsPortArg) =>
              target = Loopback(VPortOf(hsPortArg)) /\ targetPort = VPortOf(hsPortArg)
        /\ (HasTarget(hsPortArg) /\ IsPortNumeral(TargetOf(hsPortArg))) =>
              /\ target = Loopback(TargetOf(hsPortArg))
              /\ targetPort = TargetOf(hsPortArg)
        /\ IsUnixTarget(hsPortArg) =>
              /\ target = SubSeq(TargetOf(hsPortArg), Len(unixPrefix) + 1,
                                 Len(TargetOf(hsPortArg)))
              /\ targetPort = <<>>
        /\ targetPort = <<>> <=> IsUnixTarget(hsPortArg)

C8_UnixTargetAccepted ==
    /\ Accepted
    /\ hsPortArg = <<"8",",","u","n","i","x",":","s">>
    /\ target = <<"s">> /\ targetPort = <<>> /\ virtPort = <<"8">>

\* A target port of 0: TARGET is a decimal numeral of 0, or ends in a colon
\* and a decimal numeral of 0, or in a colon and nothing.
ZeroTargetPort(tg) ==
    \/ IsDecimal(tg) /\ DecVal(tg) = 0
    \/ /\ LastIndexOf(tg, ":") # 0
       /\ ~HasPrefix(tg, unixPrefix)
       /\ LET port == SubSeq(tg, LastIndexOf(tg, ":") + 1, Len(tg))
          IN  port = <<>> \/ (IsDecimal(port) /\ DecVal(port) = 0)

BadSpec(arg) ==
    \/ ~IsPortNumeral(VPortOf(arg))
    \/ HasTarget(arg) /\ ZeroTargetPort(TargetOf(arg))

\* C9: an argument whose VPORT is 0, not a numeral or out of [1,65535], or
\* whose target port is 0, is never accepted: the step that reads it
\* (main.go:192-195) ends the process with a non-zero status and "Invalid
\* virtual port"; the process is at that step, before it, or has exited
\* with a non-zero status (on that message or, before it read the argument,
\* on "Invalid control port"), with no control connection, no ADD_ONION
\* request, no service, no worker and no listener.
C9_InvalidSpecIsFatal ==
    /\ [](BadSpec(hsPortArg) =>
            /\ pc \in {"controlPort", "parsePort", "exited"}
            /\ pc = "exited" =>
                  /\ exitCode # 0
                  /\ errMsg \in {"Invalid control port", "Invalid virtual port"}
            /\ ctrlConn = "nil" /\ requests = <<>> /\ ~onion /\ serviceID = <<>>
            /\ worker = "none" /\ listener = "none" /\ ~info)
    /\ [][(BadSpec(hsPortArg) /\ pc = "parsePort") =>
            /\ pc' = "exited" /\ exitCode' # 0
            /\ errMsg' = "Invalid virtual port"]_vars

C9_ZeroTargetRejected ==
    /\ hsPortArg = <<"8",",","0">> /\ BadSpec(hsPortArg)
    /\ pc = "exited" /\ exitCode # 0 /\ errMsg = "Invalid virtual port"

(***************************************************************************)
(* Properties of the key codec.                                            *)
(***************************************************************************)
\* C10: for every RSA1024 key in wire form, the save succeeds, the load of
\* the saved file returns the key, and the save of the loaded key leaves
\* the same file; for a key of another type the save fails and the key file
\* is what it was, absent or not.
C10_KeyRoundTrip ==
    rt.pc = "done" =>
        /\ rt.key \in RSAWireKeys =>
              /\ rt.err1 = "" /\ rt.file1 # NoFile
              /\ rt.lerr = "" /\ rt.loaded = rt.key
              /\ rt.err2 = "" /\ keyFile = rt.file1
        /\ rt.key \in UnknownWireKeys =>
              /\ rt.err1 # "" /\ keyFile = rt.file0

C10_LongKeyRoundTrip ==
    /\ rt.pc = "done" /\ rt.key = WireForm(onionKeyTypeRSA, LongBlob)
    /\ rt.file0 = GoodFile /\ rt.err2 = "" /\ rt.loaded = rt.key
    /\ Len(keyFile) = 4 /\ keyFile # rt.file0

(***************************************************************************)
(* The rewrite of the worker's arguments on its own (main.go:192-228):     *)
(* with and without -no-rewrite, on arguments made of at most MaxTokens    *)
(* of ArgTokens.                                                           *)
(***************************************************************************)
VIRTPORT == <<"%","V","I","R","T","P","O","R","T">>

ArgTokens == {VPORT, TPORT, TADDR, VIRTPORT, <<"%">>, <<"x">>}

RECURSIVE TokenStrings(_)
TokenStrings(n) ==
    IF n = 0 THEN {<<>>}
    ELSE TokenStrings(n - 1) \cup { a \o t : a \in TokenStrings(n - 1), t \in ArgTokens }

RewriteVecs ==
    { <<a0>> : a0 \in {<<"w">>, VPORT} }
    \cup { <<a0, a>> : a0 \in {<<"w">>, VPORT}, a \in TokenStrings(MaxTokens) }
    \cup { << <<"w">>, TADDR, a >> : a \in ArgTokens }

RewritePortArgs ==
    { <<"8">>, <<"8",",","9">>, <<"8",",","u","n","i","x",":","s">>,
      <<"8",",","u","n","i","x",":">> \o TPORT, <<"8",",","u","n","i","x",":">> \o VPORT,
      <<"8",",",":","9">>,
      <<"8",",","1","2","7",".","0",".","0",".","1",":","h","t","t","p">>,
      <<"8",",","1","0",".","0",".","0",".","1",":","9">>,
      <<"8",",","[",":",":","2","]",":","9">>,
      <<"8",",","1","2","7",".","0",".","0",".","1",":","H","T","T","P","S">> }

InitRewrite ==
    /\ InitState
    /\ hsPortArg \in RewritePortArgs
    /\ hsKeyArg = <<>> /\ generatePK = FALSE /\ inetd = FALSE
    /\ quietSpew = FALSE /\ ctrlPortArg = <<>>
    /\ noRewriteArgs \in BOOLEAN
    /\ cmdVec \in RewriteVecs
    /\ keyFile = NoFile
    /\ rt = NoRT

NextRewrite == ParseControlPort \/ ParsePortArg \/ BuildCommand

SpecRewrite == InitRewrite /\ [][NextRewrite]_vars

\* The substitution in one pass over the argument: at each position a
\* placeholder is replaced by its value, and any other character is kept.
RECURSIVE Substitute(_, _, _, _, _)
Substitute(v, vname, vp, tp, tgt) ==
    IF v = <<>> THEN <<>>
    ELSE IF HasPrefix(v, vname)
    THEN vp \o Substitute(SubSeq(v, Len(vname) + 1, Len(v)), vname, vp, tp, tgt)
    ELSE IF tp # <<>> /\ HasPrefix(v, TPORT)
    THEN tp \o Substitute(SubSeq(v, Len(TPORT) + 1, Len(v)), vname, vp, tp, tgt)
    ELSE IF HasPrefix(v, TADDR)
    THEN tgt \o Substitute(SubSeq(v, Len(TADDR) + 1, Len(v)), vname, vp, tp, tgt)
    ELSE <<v[1]>> \o Substitute(Tail(v), vname, vp, tp, tgt)

CommandBuilt == pc = "loadKey"

\* C11: once the command is built: without -no-rewrite every argument after
\* argv[0] is the original with every %VPORT replaced by the virtual port,
\* every %TADDR by the target and, when there is a target port, every
\* %TPORT by it, a %TPORT being kept when there is none; argv[0] is the
\* original; with -no-rewrite every argument is the original.
C11_ArgumentsRewritten ==
    CommandBuilt =>
        /\ Len(cmdArgs) = Len(cmdVec)
        /\ cmdArgs[1] = cmdVec[1]
        /\ noRewriteArgs => cmdArgs = cmdVec
        /\ ~noRewriteArgs =>
              \A i \in 2..Len(cmdVec) :
                  cmdArgs[i] = Substitute(cmdVec[i], VPORT, virtPort, targetPort, target)
        /\ (~noRewriteArgs /\ targetPort = <<>> /\ Len(cmdVec) >= 2 /\ cmdVec[2] = TPORT) =>
              cmdArgs[2] = TPORT

C11_UnixTargetKeepsTPort ==
    /\ CommandBuilt /\ ~noRewriteArgs
    /\ hsPortArg = <<"8",",","u","n","i","x",":","s">>
    /\ cmdVec = << VPORT, VPORT \o TPORT >>
    /\ cmdArgs = << VPORT, <<"8">> \o TPORT >>

\* Whether sub occurs in s.
Occurs(s, sub) ==
    \E i \in 1..Len(s) : HasPrefix(SubSeq(s, i, Len(s)), sub)

\* C12, as the README states it: without -no-rewrite every argument (those
\* with a %VPORT, which the README does not name, left aside) is the
\* original with every %VIRTPORT replaced by the virtual port, and %TPORT
\* and %TADDR as documented.
C12_VirtPortPlaceholder ==
    (CommandBuilt /\ ~noRewriteArgs) =>
        \A i \in 2..Len(cmdVec) :
            ~Occurs(cmdVec[i], VPORT) =>
                cmdArgs[i] = Substitute(cmdVec[i], VIRTPORT, virtPort, targetPort, target)

(***************************************************************************)
(* Properties of the event drain.                                          *)
(***************************************************************************)
\* C13, as stated: once the event-drain goroutine has its error to report
\* on doneChan, the process eventually exits.
C13_DrainErrorEndsInvocation ==
    (drainPc = "sending") ~> (pc = "exited")

(***************************************************************************)
(* Properties of the end of the worker.                                    *)
(***************************************************************************)
\* C14, as stated: when main has exited in normal mode after the worker was
\* started, Kill has been called on the worker, cmd.Wait() has returned its
\* status, and the worker is not running.
C14_KilledAndReapedBeforeExit ==
    (pc = "exited" /\ ~inetd /\ worker # "none") =>
        /\ kills # <<>>
        /\ worker # "running"
        /\ processState # "nil"

\* C15, as stated (the close made by the outbound pump on its destination
\* left aside): in a handler, Kill is called only after both pumps have
\* ended, and a connection that the outbound pump has not closed is closed
\* only after cmd.Wait() has returned, or when no worker was started.
C15_KillReapClose ==
    \A c \in Conns :
        /\ conns[c].w = "killed" =>
              (conns[c].inPump \notin {"none", "read", "write"}
               /\ conns[c].outPump \notin {"none", "read", "write"})
        /\ (conns[c].conn = "closed" /\ conns[c].outPump \in {"none", "read", "write", "closeDst"}) =>
              conns[c].w \in {"none", "reaped"}

\* C16, as stated: while the peer receives (it may have finished sending,
\* it has not stalled and has not reset the connection), the outbound pump
\* leaves its loop only when the worker's output has reached its end, that
\* is when the worker has ended.
C16_OutboundPumpRunsToEnd ==
    [][\A c \in Conns :
          (/\ conns[c].outPump \in {"read", "write"}
           /\ conns'[c].outPump = "closeDst"
           /\ conns[c].peer \in {"open", "eof"}) =>
              conns[c].w # "running"]_vars

(***************************************************************************)
(* Properties of the ADD_ONION request.                                    *)
(***************************************************************************)
NewBest == <<"N","E","W",":","B","E","S","T">>

\* A key was loaded: -onion-key names a file that exists.
KeyLoaded == hsKeyArg # <<>> /\ keyFile \notin {NoFile, NoStat}

\* C17: the step that sends a request sends the first and only one, on an
\* authenticated connection: with the loaded key and no DiscardPK flag when
\* a key was loaded; otherwise for a new key, without the flag when
\* -generate was given and with it when not.
C17_CommandFollowsKeyState ==
    [][requests' # requests =>
          /\ requests = <<>> /\ Len(requests') = 1
          /\ ctrlConn = "authenticated"
          /\ requests'[1].port = hsPortArg
          /\ IF KeyLoaded
             THEN /\ requests'[1].key = loadPrivateKey(hsKeyArg, keyFile).key
                  /\ requests'[1].key # NewBest
                  /\ ~requests'[1].discardPK
             ELSE /\ requests'[1].key = NewBest
                  /\ requests'[1].discardPK = ~generatePK]_vars

C17_SuppliedKeySent ==
    /\ Len(requests) = 1 /\ hsKeyArg = KeyPath /\ generatePK
    /\ requests[1].key = onionKeyTypeRSA \o <<":">> \o EncodeToString(<<1>>)
    /\ ~requests[1].discardPK /\ pc = "parse"

HasKeyLine(data) ==
    \E i \in DOMAIN data : HasPrefix(data[i], privateKeyPrefix)

\* No key was asked for: the request carried a key, or the DiscardPK flag.
NoKeyRequested ==
    /\ Len(requests) = 1
    /\ requests[1].key # NewBest \/ requests[1].discardPK

\* C18: the parse of a reply with a PrivateKey= line, when no key was asked
\* for, ends the process with a non-zero status and "Received a private key
\* when we shouldn't have.", the key file left as it was, without the
\* success line, the event drain, a worker or a listener.
C18_UnrequestedKeyIsFatal ==
    [][(pc = "parse" /\ HasKeyLine(resp) /\ NoKeyRequested) =>
          /\ RejectedWith({"Received a private key when we shouldn't have."})
          /\ keyFile' = keyFile]_vars

C18_KeyForSuppliedKey ==
    /\ pc = "exited" /\ errMsg = "Received a private key when we shouldn't have."
    /\ HasKeyLine(resp) /\ NoKeyRequested
    /\ requests[1].key # NewBest /\ keyFile = GoodFile /\ exitCode # 0

(***************************************************************************)
(* Properties of the accept loop.                                          *)
(***************************************************************************)
\* C19: the step on which l.Accept() returns an error: when the error is
\* temporary the loop is back at Accept with the listener open, no handler
\* spawned and no connection touched; when it is not, the process exits
\* with a non-zero status and "Critical Accept() failure".
C19_AcceptErrors ==
    [][acceptErrs' # acceptErrs =>
          IF acceptErrs'[Len(acceptErrs')].kind = "temporary"
          THEN /\ pc' = "accept" /\ listener' = "listening"
               /\ conns' = conns /\ UNCHANGED output
          ELSE /\ pc' = "exited" /\ exitCode' # 0
               /\ errMsg' = "Critical Accept() failure"]_vars

\* A connection accepted, and its handler ended, after a temporary error.
C19_AcceptedAfterTemporaryError ==
    /\ acceptErrs = <<[kind |-> "temporary", accepted |-> 0]>>
    /\ conns[1].queue = "accepted" /\ conns[1].h = "done"
    /\ pc = "accept"

ListenerFailures ==
    {"Failed to create an inetd listener", "Critical Accept() failure"}

\* C20: in inetd mode, once the service is created, the process has exited
\* only with a non-zero status on a failure of net.Listen or on an accept
\* error that is not temporary; a handler that has ended has closed its
\* connection; and no step of a handler, a pump, a worker or a peer ends
\* the process, moves the accept loop or touches the listener.
C20_HandlerFailuresAreIsolated ==
    /\ [](/\ (inetd /\ info /\ pc = "exited") =>
                /\ exitCode # 0 /\ errMsg \in ListenerFailures
                /\ errMsg = "Critical Accept() failure" =>
                      (acceptErrs # <<>> /\ acceptErrs[Len(acceptErrs)].kind = "permanent")
          /\ \A c \in Conns : conns[c].h = "done" => conns[c].conn = "closed")
    /\ [][conns' # conns =>
             /\ pc' = pc /\ listener' = listener /\ UNCHANGED output
             /\ \A c \in Conns, d \in Conns :
                   (conns'[c] # conns[c] /\ d # c) => conns'[d] = conns[d]]_vars

\* The worker of the first connection could not be started, and the second
\* connection is served.
C20_StartFailureIsolated ==
    /\ conns[1].h = "done" /\ conns[1].w = "none"
    /\ conns[1].stdin = "closed" /\ conns[1].stdout = "closed" /\ conns[1].conn = "closed"
    /\ conns[2].w = "running" /\ conns[2].conn = "open"
    /\ pc = "accept" /\ listener = "listening"

(***************************************************************************)
(* Properties of the key file.                                             *)
(***************************************************************************)
\* C21: a step that writes the key file is the parse of the reply, in an
\* invocation that found no file at the -onion-key path, loaded no key, was
\* given -generate and asked the daemon for a new key; a file that exists
\* when the invocation starts is left as it was by every step.
C21_ExistingKeyFileNeverWritten ==
    [][/\ keyFile' # keyFile =>
            /\ pc = "parse" /\ keyFile = NoFile /\ hsKeyArg # <<>>
            /\ generatePK /\ hsKeyStr = <<>>
            /\ Len(requests) = 1 /\ requests[1].key = NewBest
       /\ KeyLoaded => keyFile' = keyFile]_vars

\* A key was loaded, -generate was given all the same, and the daemon's
\* reply carried a key: the file is as it was.
C21_LoadedKeyFileKept ==
    /\ pc = "exited" /\ generatePK /\ hsKeyArg = KeyPath /\ keyFile = GoodFile
    /\ hsKeyStr = loadPrivateKey(hsKeyArg, GoodFile).key
    /\ Len(requests) = 1 /\ requests[1].key = hsKeyStr
    /\ HasKeyLine(resp)

\* C22: a request for a new key without the DiscardPK flag, which asks the
\* daemon to return the key, is sent only when -onion-key names a path; and
\* no invocation without a path creates the service and then ends on
\* "Failed to save private key".
C22_KeyRequestedOnlyWithPath ==
    /\ \A i \in DOMAIN requests :
          (requests[i].key = NewBest /\ ~requests[i].discardPK) => hsKeyArg # <<>>
    /\ ~(/\ hsKeyArg = <<>> /\ onion /\ pc = "exited"
         /\ errMsg = "Failed to save private key")

(***************************************************************************)
(* Termination of an inetd connection handler.                             *)
(***************************************************************************)
\* What C23 requires of the handler of connection c in the end: both pumps
\* have finished, the worker was killed and reaped, the connection is closed
\* and the handler has returned.
HandlerEnded(c) ==
    /\ conns[c].inPump = "end" /\ conns[c].outPump = "end"
    /\ conns[c].w = "reaped" /\ conns[c].conn = "closed"
    /\ conns[c].h = "done"

\* C23, as stated: once the pumps of a connection run and either side has
\* closed (the worker has exited, or the peer has finished sending), the
\* handler eventually ends, or the process does; also for a worker that
\* neither exits nor writes.
C23_HandlerEndsWhenEitherSideCloses ==
    \A c \in Conns :
        (/\ conns[c].h = "wgWait"
         /\ conns[c].w = "exited" \/ conns[c].peer = "eof")
            ~> (HandlerEnded(c) \/ pc = "exited")

====
